---- MODULE Spec2Model ----
(***************************************************************************)
(* rss-cli: feed acquisition (ProxyManager.fetch, RssService.updateFeed,   *)
(* CacheService), the sequential `update` command and the pipelined `run`  *)
(* command with its two PQueues and the shared ScraperService.             *)
(*                                                                         *)
(* JavaScript runs one task at a time: an action is the synchronous code   *)
(* between two awaits.  What the network, the feed server, the browser and *)
(* the model answer is an input of the action that resumes the awaiting    *)
(* code.                                                                   *)
(***************************************************************************)
EXTENDS Integers, Sequences, FiniteSets, TLC

\* ---------------------------------------------------------------- bounds
NumFeeds == 2
NumNames == 2
NumGuids == 3
MaxItems == 2
MaxCommands == 2

Feeds == 1..NumFeeds
Names == 1..NumNames
Guids == 1..NumGuids

Modes == {"direct", "proxy"}

\* One <item> of a feed document as rss-parser hands it over: its guid
\* (already through the guid -> link -> title fallback), whether it has a
\* link, and its pubDate: a date inside the analysis window ("recent") or a
\* string that is not a date ("invalid").  The entries a server publishes
\* are drawn from a small catalogue, one entry per guid: odd guids carry a
\* link, every third guid carries a pubDate that is not a date.
Item(g) ==
  [guid |-> g, link |-> (g % 2 = 1),
   date |-> IF g % 3 = 0 THEN "invalid" ELSE "recent"]
Items == {Item(g) : g \in Guids}

RECURSIVE SeqsUpTo(_, _)
SeqsUpTo(S, n) ==
  IF n = 0 THEN {<<>>}
  ELSE LET shorter == SeqsUpTo(S, n - 1)
       IN shorter \cup {Append(s, x) : s \in {t \in shorter : Len(t) = n - 1}, x \in S}

XmlDocs == SeqsUpTo(Items, MaxItems)

NoResult == [newCount |-> -1, error |-> "unset"]

VARIABLES
  cmd,        \* the command this process executes: "update" or "run"
  proxyUrl,   \* config proxy_url: TRUE when a proxy endpoint is configured
  opts,       \* the options of `run`
  feeds,      \* table feeds: id -> row
  articles,   \* table articles: a set of rows
  fpc,        \* per feed: where its updateFeed call is suspended
  fmode,      \* per feed: the mode of the attempt in flight
  ret,        \* per feed: how its updateFeed call settled (observation)
  lastXml,    \* per feed: the document of its last updateFeed that returned
  upc,        \* update command: "idle" | "running" | "done"
  todo,       \* updateAllFeeds: the feeds still to iterate over
  results,    \* updateAllFeeds: Map name -> {newCount, error?}
  ncmd,       \* commands run so far
  mainPc,     \* run: where the action handler is suspended
  pc,         \* run, per feed: where processRssFeed is suspended
  rssWaiting, \* rssQueue: the tasks not yet started, in order
  batch,      \* run, per feed: newArticles (article ids)
  toScrape,   \* run, per feed: articlesToScrape not yet iterated over
  scraped,    \* run, per feed: the articles whose scrape call settled (observation)
  llm,        \* run, per feed: where its llmQueue task is
  llmWaiting, \* llmQueue: the tasks not yet started, in order
  filt,       \* run, per feed: the filter results of its batch
  cnt,        \* run: the progress counters
  updateOutput, \* run: Record name -> {newCount, error?}
  browser,    \* ScraperService.browser: 0 is null, 1 a launched instance
  proxyBrowser, \* ScraperService.proxyBrowser: 0 is null, 1 a launched instance
  openInst,   \* how many browser instances are launched and not closed
  spc,        \* per feed: where its fetchArticleContent call is
  scrapeWaiting, \* scraper queue: the tasks not yet started, in order
  intervalCount, \* scraper queue: tasks started in the current interval
  aPc,        \* analyzeArticles: where the call is suspended
  withSummary, \* analyzeArticles: its withSummary argument
  filterResults, \* analyzeArticles: the filter results from the one in hand on
  analysisResults, \* analyzeArticles: results, the list it returns
  pending,    \* analyzeArticles: result.resources from the one in hand on
  tokenUsage, \* analyzeArticles: tokenUsage.totalTokens
  modelCalls, \* the model calls made and the usage they reported (observation)
  resources,  \* table resources: a set of rows
  articleResources, \* table article_resources: a set of rows
  extracted,  \* the extracted resources handled so far (observation)
  prompts     \* the article texts of the prompts built so far (observation)

cfgVars == <<cmd, proxyUrl, opts>>
callVars == <<aPc, withSummary, filterResults, analysisResults, pending, tokenUsage,
              modelCalls, resources, articleResources, extracted, prompts>>
updVars == <<upc, todo, results, ncmd>>
pipeVars == <<mainPc, pc, rssWaiting, batch, toScrape, scraped, llm, llmWaiting, filt, cnt,
              updateOutput>>
browserVars == <<browser, proxyBrowser, openInst>>
queueVars == <<spc, scrapeWaiting, intervalCount>>
vars == <<cmd, proxyUrl, opts, feeds, articles, fpc, fmode, ret, lastXml, upc, todo, results,
          ncmd, mainPc, pc, rssWaiting, batch, toScrape, scraped, llm, llmWaiting, filt, cnt,
          updateOutput, browser, proxyBrowser, openInst, spc, scrapeWaiting,
          intervalCount, aPc, withSummary, filterResults, analysisResults, pending,
          tokenUsage, modelCalls, resources, articleResources, extracted, prompts>>

\* ------------------------------------------------------- ProxyManager

\* Variant: auto mode with a tie going to the proxy.
determineModeTiesToProxy(feed) ==
  IF feed.proxy_mode = "direct" THEN "direct"
  ELSE IF feed.proxy_mode = "proxy" THEN "proxy"
  ELSE IF feed.direct_success_count = 0 /\ feed.proxy_success_count = 0 THEN "direct"
  ELSE IF feed.direct_success_count > feed.proxy_success_count THEN "direct"
  ELSE "proxy"

determineMode(feed) ==
  IF feed.proxy_mode = "direct" THEN "direct"
  ELSE IF feed.proxy_mode = "proxy" THEN "proxy"
  ELSE IF feed.direct_success_count = 0 /\ feed.proxy_success_count = 0 THEN "direct"
  ELSE IF feed.direct_success_count >= feed.proxy_success_count THEN "direct"
  ELSE "proxy"

altModeOf(mode) == IF mode = "direct" THEN "proxy" ELSE "direct"

\* doFetch(url, mode): the request goes through the proxy agent only when the
\* mode is proxy and a proxy endpoint is configured; otherwise it is a plain
\* (direct) request.
transportOf(mode) == IF mode = "proxy" /\ proxyUrl THEN "proxy" ELSE "direct"

\* ------------------------------------------------------- CacheService

\* Variant: a success counted for the mode that was not attempted.
updateFeedProxyStatsOfOtherMode(tbl, f, mode, success) ==
  IF ~success THEN tbl
  ELSE IF mode = "direct"
    THEN [tbl EXCEPT ![f].proxy_success_count = @ + 1]
    ELSE [tbl EXCEPT ![f].direct_success_count = @ + 1]

updateFeedProxyStats(tbl, f, mode, success) ==
  IF ~success THEN tbl
  ELSE IF mode = "direct"
    THEN [tbl EXCEPT ![f].direct_success_count = @ + 1]
    ELSE [tbl EXCEPT ![f].proxy_success_count = @ + 1]

\* last_fetched_at = datetime('now'): a logical time that every write advances.
updateFeedFetchTime(tbl, f) == [tbl EXCEPT ![f].last_fetched_at = @ + 1]

HasRow(rows, f, g) == \E r \in rows : r.feed_id = f /\ r.guid = g

\* id is AUTOINCREMENT; no row of the table is ever deleted here.
NewRow(rows, input) ==
  [id |-> Cardinality(rows) + 1, feed_id |-> input.feed_id, guid |-> input.guid, link |-> input.link,
   pub_date |-> input.pub_date, analysis |-> "none", text_snapshot |-> 0]

\* Variant: a plain INSERT that takes no notice of UNIQUE(feed_id, guid).
InsertAlways(rows, input) ==
  [rows |-> rows \cup {NewRow(rows, input)}, changes |-> 1]

\* INSERT OR IGNORE of one row under UNIQUE(feed_id, guid): [rows, changes].
InsertOrIgnore(rows, input) ==
  IF HasRow(rows, input.feed_id, input.guid)
    THEN [rows |-> rows, changes |-> 0]
    ELSE [rows |-> rows \cup {NewRow(rows, input)}, changes |-> 1]

\* The transaction of addArticles: the loop over the inputs, counting the
\* statements that changed a row.
RECURSIVE insertMany(_, _, _)
insertMany(rows, inputs, insertedCount) ==
  IF inputs = <<>> THEN [rows |-> rows, insertedCount |-> insertedCount]
  ELSE LET r == InsertOrIgnore(rows, Head(inputs))
       IN insertMany(r.rows, Tail(inputs), insertedCount + r.changes)

\* Variant: the transaction returning the number of statements it executed.
addArticlesCountingInputs(rows, inputs) ==
  [rows |-> insertMany(rows, inputs, 0).rows, insertedCount |-> Len(inputs)]

addArticles(rows, inputs) == insertMany(rows, inputs, 0)

\* ------------------------------------------------------- RssService

\* new Date(item.pubDate).toISOString() throws RangeError on a pubDate that
\* is not a date.
ConversionThrows(xml) == \E i \in 1..Len(xml) : xml[i].date = "invalid"

ArticleInputs(f, xml) ==
  [i \in 1..Len(xml) |->
     [feed_id |-> f, guid |-> xml[i].guid, link |-> xml[i].link,
      pub_date |-> xml[i].date]]

Ok(n) == [newCount |-> n, error |-> "none"]
Err(msg) == [newCount |-> 0, error |-> msg]

\* What a settled updateFeed call leaves behind for the observer.
NoXml == <<[guid |-> 0]>>
Settled(f, res, xml, parsed) ==
  /\ ret' = [ret EXCEPT ![f] = [res |-> res, parsed |-> parsed,
                                 repeat |-> (res.error = "none" /\ xml = lastXml[f])]]
  /\ lastXml' = IF res.error = "none" /\ cmd = "update"
                  THEN [lastXml EXCEPT ![f] = xml] ELSE lastXml

\* --------------------------------------------------- run: configuration

RSS_CONCURRENCY == 5
LLM_CONCURRENCY == 1

\* parseInt(options.xConcurrency, 10) || DEFAULT: an option that is absent,
\* not a number or 0 (written 0 here) gives the default.
resolveConcurrency(option, default) == IF option = 0 THEN default ELSE option

rssConcurrency == resolveConcurrency(opts.rssConcurrency, RSS_CONCURRENCY)
llmConcurrency == resolveConcurrency(opts.llmConcurrency, LLM_CONCURRENCY)

\* Variant: the LLM queue constructed with the width of the RSS queue.
llmQueueHasSlotOfRssWidth ==
  Cardinality({f \in Feeds : llm[f] \in {"filter", "summarize"}}) < rssConcurrency

\* PQueue starts a waiting task while fewer than `concurrency` are running.
RssRunning == {f \in Feeds : pc[f] \in {"update", "scrape"}}
LlmRunning == {f \in Feeds : llm[f] \in {"filter", "summarize"}}
rssQueueHasSlot == Cardinality(RssRunning) < rssConcurrency
llmQueueHasSlot == Cardinality(LlmRunning) < llmConcurrency

\* ------------------------------------------------ run: processRssFeed

MIN_SNAPSHOT == 200

\* Variant: the snapshot length alone decides.
needsScrapingWhateverLink(article) == article.text_snapshot <= MIN_SNAPSHOT

\* text_snapshot is the length of the stored snapshot, 0 when there is none.
needsScraping(article) ==
  IF article.text_snapshot > MIN_SNAPSHOT THEN FALSE
  ELSE IF ~article.link THEN FALSE
  ELSE TRUE

RowOf(rows, id) == CHOOSE r \in rows : r.id = id

RECURSIVE SortedIds(_)
SortedIds(S) ==
  IF S = {} THEN <<>>
  ELSE LET m == CHOOSE x \in S : \A y \in S : x <= y
       IN <<m>> \o SortedIds(S \ {m})

\* getUnanalyzedArticles(feed.id, days): analyzed_at IS NULL, pub_date inside
\* the window, of this feed (listed here by id).
\* Variant: the selection of --force, the articles of the window whether
\* analyzed or not.
getArticlesAnalyzedOrNot(rows, f) ==
  SortedIds({r.id : r \in {x \in rows : x.feed_id = f /\ x.pub_date = "recent"}})

getUnanalyzedArticles(rows, f) ==
  SortedIds({r.id : r \in {x \in rows : /\ x.feed_id = f
                                       /\ x.analysis = "none"
                                       /\ x.pub_date = "recent"}})

\* Step 2: the feed's articles to analyze.
selectArticles(rows, f) ==
  IF opts.analyze THEN getUnanalyzedArticles(rows, f) ELSE <<>>

\* Step 2.5: the articles of the batch to scrape.
articlesToScrape(rows, sel) ==
  IF sel # <<>> /\ ~opts.skipScrape
    THEN SelectSeq(sel, LAMBDA id : needsScraping(RowOf(rows, id)))
    ELSE <<>>

\* Variant: step 3 reached without running the loop.
scrapeLoopSkipped(remaining) == TRUE

\* Step 3 is reached when the for loop over articlesToScrape has ended.
scrapeLoopEnded(remaining) == remaining = <<>>

\* Variant: step 3 held back until every other feed task has ended.
enqueueAfterEveryFeed(f, sel) ==
  sel # <<>> /\ opts.analyze /\ \A g \in Feeds \ {f} : pc[g] = "done"

\* Step 3: the batch goes to the LLM queue.
shouldEnqueueLlm(f, sel) == sel # <<>> /\ opts.analyze

\* Variant: the handler never awaiting the LLM promises.
noLlmPromises(l) == FALSE

\* llmPromises.length > 0, given where the LLM tasks are.
hasLlmPromises(l) == \E f \in DOMAIN l : l[f] # "none"

llmAllSettled(l) == \A f \in DOMAIN l : l[f] \in {"none", "done", "failed"}

\* The action handler after `await Promise.all(rssPromises)` resolved: it
\* awaits the LLM promises when there are any (resuming at once when all of
\* them are settled already) and runs on into its finally, up to the await
\* of scraperService.close().
afterRssSettled(l) ==
  IF hasLlmPromises(l) /\ ~llmAllSettled(l) THEN "awaitLlm" ELSE "closing"

\* A feed task ended, leaving the tasks at p and l: Promise.all(rssPromises)
\* resolves with the last of them and the handler resumes in the same turn.
mainAfterFeedTask(p, l) ==
  IF mainPc = "awaitRss" /\ \A f \in DOMAIN p : p[f] = "done"
    THEN afterRssSettled(l) ELSE mainPc

\* An LLM task ended: Promise.all(llmPromises) resolves with the last of them.
mainAfterLlmTask(l) ==
  IF mainPc = "awaitLlm" /\ llmAllSettled(l) THEN "closing" ELSE mainPc

\* processRssFeed from the for loop of step 2.5 on, `remaining` being the
\* articles the loop has not reached, up to the next await or the end of the
\* task.
continueFeed(f, sel, remaining, c) ==
  /\ batch' = [batch EXCEPT ![f] = sel]
  /\ IF ~scrapeLoopEnded(remaining)
       THEN /\ pc' = [pc EXCEPT ![f] = "scrape"]
            /\ toScrape' = [toScrape EXCEPT ![f] = remaining]
            /\ spc' = [spc EXCEPT ![f] = "queued"]
            /\ scrapeWaiting' = Append(scrapeWaiting, f)
            /\ cnt' = c
            /\ UNCHANGED <<llm, llmWaiting, mainPc>>
       ELSE /\ pc' = [pc EXCEPT ![f] = "done"]
            /\ toScrape' = [toScrape EXCEPT ![f] = <<>>]
            /\ spc' = [spc EXCEPT ![f] = "none"]
            /\ UNCHANGED scrapeWaiting
            /\ IF shouldEnqueueLlm(f, sel)
                 THEN /\ cnt' = [c EXCEPT !.llmTotalArticles = @ + Len(sel),
                                          !.llmPendingFeeds = @ + 1]
                      /\ llm' = [llm EXCEPT ![f] = "queued"]
                      /\ llmWaiting' = Append(llmWaiting, f)
                 ELSE /\ cnt' = c
                      /\ UNCHANGED <<llm, llmWaiting>>
            /\ mainPc' = mainAfterFeedTask(pc', llm')

\* Steps 2 and 2.5 up to the first scrape, given the table as step 1 left it.
selectAndContinue(f, rows, c) ==
  LET sel == selectArticles(rows, f)
      scr == articlesToScrape(rows, sel)
  IN continueFeed(f, sel, scr,
                  [c EXCEPT !.scrapeTotal = @ + Len(scr)])

\* Step 1 after `await rssService.updateFeed(feed)` settled, then on.
processRssFeedResume(f, res) ==
  /\ updateOutput' = [updateOutput EXCEPT ![feeds[f].name] = res]
  /\ fpc' = [fpc EXCEPT ![f] = "idle"]
  /\ fmode' = [fmode EXCEPT ![f] = "direct"]
  /\ selectAndContinue(f, articles',
       [cnt EXCEPT !.totalNewArticles = @ + res.newCount, !.rssCompleted = @ + 1])
  /\ UNCHANGED <<rssWaiting, scraped, filt, browserVars, intervalCount>>

\* ------------------------------------------------ updateAllFeeds (update)

\* The loop body after `await this.updateFeed(feed)` settled for the head of
\* the list, up to the next await: record under the feed's name, go on to
\* the next feed and start its fetch.
updateAllFeedsResume(f, res) ==
  LET rest == Tail(todo)
  IN /\ results' = [results EXCEPT ![feeds[f].name] = res]
     /\ todo' = rest
     /\ upc' = IF rest = <<>> THEN "done" ELSE "running"
     /\ fpc' = [g \in Feeds |->
                  IF rest # <<>> /\ g = Head(rest) THEN "fetch1"
                  ELSE IF g = f THEN "idle" ELSE fpc[g]]
     /\ fmode' = [g \in Feeds |->
                  IF rest # <<>> /\ g = Head(rest) THEN determineMode(feeds'[g])
                  ELSE IF g = f THEN "direct" ELSE fmode[g]]
     /\ UNCHANGED ncmd

\* updateFeed settled: its caller goes on.
Resume(f, res) ==
  IF cmd = "update"
    THEN updateAllFeedsResume(f, res) /\ UNCHANGED <<pipeVars, browserVars, queueVars>>
    ELSE processRssFeedResume(f, res) /\ UNCHANGED updVars

NoRet == [res |-> NoResult, parsed |-> FALSE, repeat |-> FALSE]

\* `rss update [-f id]`: target 0 is every feed.
UpdateCommand(target) ==
  /\ cmd = "update"
  /\ upc \in {"idle", "done"}
  /\ ncmd < MaxCommands
  /\ LET list == IF target = 0 THEN [i \in 1..NumFeeds |-> i] ELSE <<target>>
     IN /\ todo' = list
        /\ upc' = "running"
        /\ fpc' = [fpc EXCEPT ![Head(list)] = "fetch1"]
        /\ fmode' = [fmode EXCEPT ![Head(list)] = determineMode(feeds[Head(list)])]
  /\ results' = [n \in Names |-> NoResult]
  /\ ncmd' = ncmd + 1
  /\ ret' = [f \in Feeds |-> NoRet]
  /\ UNCHANGED <<cfgVars, callVars, feeds, articles, lastXml, pipeVars, browserVars, queueVars>>

\* ------------------------------------------- ProxyManager.fetch, per await

othersOfFetch == <<cfgVars, callVars, ret, lastXml, updVars, pipeVars, browserVars, queueVars>>

\* fetch(url, feedId) up to its first doFetch: the mode of the first attempt.
FetchBegin(f) ==
  /\ fpc[f] = "idle"
  /\ fpc' = [fpc EXCEPT ![f] = "fetch1"]
  /\ fmode' = [fmode EXCEPT ![f] = determineMode(feeds[f])]
  /\ UNCHANGED <<feeds, articles, othersOfFetch>>

\* The first doFetch resolved: count the success, go on to read and parse.
FetchFirstOk(f) ==
  /\ fpc[f] = "fetch1"
  /\ feeds' = updateFeedProxyStats(feeds, f, fmode[f], TRUE)
  /\ fpc' = [fpc EXCEPT ![f] = "parse"]
  /\ UNCHANGED <<articles, fmode, othersOfFetch>>

\* The first doFetch rejected: try the other mode, when that is direct or a
\* proxy is configured.
FetchFirstFailRetry(f) ==
  /\ fpc[f] = "fetch1"
  /\ altModeOf(fmode[f]) = "direct" \/ proxyUrl
  /\ fpc' = [fpc EXCEPT ![f] = "fetch2"]
  /\ fmode' = [fmode EXCEPT ![f] = altModeOf(fmode[f])]
  /\ UNCHANGED <<feeds, articles, othersOfFetch>>

\* ... otherwise the first error is rethrown to updateFeed's caller.
FetchFirstFailThrow(f) ==
  /\ fpc[f] = "fetch1"
  /\ ~(altModeOf(fmode[f]) = "direct" \/ proxyUrl)
  /\ UNCHANGED <<cfgVars, callVars, feeds, articles>>
  /\ Settled(f, Err("HTTP error"), <<>>, FALSE)
  /\ Resume(f, Err("HTTP error"))

FetchSecondOk(f) ==
  /\ fpc[f] = "fetch2"
  /\ feeds' = updateFeedProxyStats(feeds, f, fmode[f], TRUE)
  /\ fpc' = [fpc EXCEPT ![f] = "parse"]
  /\ UNCHANGED <<articles, fmode, othersOfFetch>>

FetchSecondFail(f) ==
  /\ fpc[f] = "fetch2"
  /\ UNCHANGED <<cfgVars, callVars, feeds, articles>>
  /\ Settled(f, Err("Both direct and proxy connections failed"), <<>>, FALSE)
  /\ Resume(f, Err("Both direct and proxy connections failed"))

\* -------------------------------------- RssService.fetchFeed / updateFeed

\* response.text() or parser.parseString rejected.
ParseFail(f) ==
  /\ fpc[f] = "parse"
  /\ UNCHANGED <<cfgVars, callVars, feeds, articles>>
  /\ Settled(f, Err("parse error"), <<>>, FALSE)
  /\ Resume(f, Err("parse error"))

\* parseString resolved with the document xml: the rest of updateFeed.
updateFeedAfterParse(f, xml) ==
  IF ConversionThrows(xml)
    THEN /\ UNCHANGED <<feeds, articles>>
         /\ Settled(f, Err("Invalid time value"), xml, TRUE)
         /\ Resume(f, Err("Invalid time value"))
    ELSE LET added == addArticles(articles, ArticleInputs(f, xml))
         IN /\ articles' = added.rows
            /\ feeds' = updateFeedFetchTime(feeds, f)
            /\ Settled(f, Ok(added.insertedCount), xml, TRUE)
            /\ Resume(f, Ok(added.insertedCount))

ParseOk(f) ==
  /\ fpc[f] = "parse"
  /\ \E xml \in XmlDocs : updateFeedAfterParse(f, xml)
  /\ UNCHANGED <<cfgVars, callVars>>

\* ------------------------------------------------------ ScraperService

SCRAPE_CONCURRENCY == 2
INTERVAL_CAP == 1

\* The text a scrape extracts, and its length.
ScrapedTexts == {"long"}
TextLength(text) == IF text = "short" THEN 150 ELSE 250

saveArticleSnapshot(rows, id, len) ==
  {IF r.id = id THEN [r EXCEPT !.text_snapshot = len] ELSE r : r \in rows}

ScrapeRunning ==
  {f \in DOMAIN spc :
     spc[f] \in {"launching", "scraping", "proxyLaunching", "proxyScraping"}}

\* Variant: a queue with the concurrency cap and no interval cap.
scrapeQueueHasSlotInAnyInterval == Cardinality(ScrapeRunning) < SCRAPE_CONCURRENCY

\* PQueue({concurrency, interval, intervalCap}) starts a waiting task while
\* fewer than `concurrency` are running and fewer than `intervalCap` were
\* started in the current interval.
scrapeQueueHasSlot ==
  Cardinality(ScrapeRunning) < SCRAPE_CONCURRENCY /\ intervalCount < INTERVAL_CAP

\* run.ts, the body of the for loop after `await fetchArticleContent` settled
\* with `result` (a text, "null", or "throw" when the call rejected),
\* and on to the next article or to step 3.
scrapeLoopResume(f, result) ==
  LET id == Head(toScrape[f])
      c == IF result = "throw"
             THEN [cnt EXCEPT !.scrapeErrors = @ + 1]
             ELSE [cnt EXCEPT !.scrapedArticles = @ + 1]
  IN /\ articles' = IF result \in ScrapedTexts
                      THEN saveArticleSnapshot(articles, id, TextLength(result))
                      ELSE articles
     /\ scraped' = [scraped EXCEPT ![f] = @ \cup {id}]
     /\ continueFeed(f, batch[f], Tail(toScrape[f]), c)
     /\ UNCHANGED <<cfgVars, callVars, feeds, fpc, fmode, ret, lastXml, updVars, rssWaiting,
                    filt, updateOutput>>

\* The scraper queue starts the task of fetchArticleContent: at most
\* SCRAPE_CONCURRENCY running, at most INTERVAL_CAP started per interval.
\* The task calls init() when there is no browser yet.
ScrapeStart(f) ==
  /\ spc[f] = "queued"
  /\ scrapeWaiting # <<>> /\ Head(scrapeWaiting) = f
  /\ scrapeQueueHasSlot
  /\ scrapeWaiting' = Tail(scrapeWaiting)
  /\ intervalCount' = intervalCount + 1
  /\ spc' = [spc EXCEPT ![f] = IF browser = 0 THEN "launching" ELSE "scraping"]
  /\ UNCHANGED <<cfgVars, callVars, feeds, articles, fpc, fmode, ret, lastXml, updVars, pipeVars,
                 browserVars>>

\* The 3 s interval of the scraper queue ends while a task waits for it.  (A
\* tick with nothing waiting changes no order of events: the next task to
\* arrive waits for this step instead.)
IntervalElapsed ==
  /\ intervalCount > 0
  /\ scrapeWaiting # <<>>
  /\ intervalCount' = 0
  /\ UNCHANGED <<cfgVars, callVars, feeds, articles, fpc, fmode, ret, lastXml, updVars, pipeVars,
                 browserVars, spc, scrapeWaiting>>

\* init(): puppeteer.launch resolved; this.browser is assigned the new
\* instance, whatever it held before.
LaunchOk(f) ==
  /\ spc[f] = "launching"
  /\ browser' = 1
  /\ openInst' = openInst + 1
  /\ spc' = [spc EXCEPT ![f] = "scraping"]
  /\ UNCHANGED <<cfgVars, callVars, feeds, articles, fpc, fmode, ret, lastXml, updVars, pipeVars,
                 proxyBrowser, scrapeWaiting, intervalCount>>

\* init(): puppeteer.launch rejected, outside the try of fetchArticleContent.
LaunchFail(f) ==
  /\ spc[f] = "launching"
  /\ scrapeLoopResume(f, "throw")
  /\ UNCHANGED <<browserVars, intervalCount>>

\* scrapeWithBrowser(url, this.browser) resolved: a text or null.
ScrapeResolved(f) ==
  /\ spc[f] = "scraping"
  /\ \E r \in ScrapedTexts \cup {"null"} : scrapeLoopResume(f, r)
  /\ UNCHANGED <<browserVars, intervalCount>>

\* scrapeWithBrowser rejected with a timeout-class error and a proxy is
\* configured: initProxyBrowser(), then the retry.
ScrapeTimedOutRetry(f) ==
  /\ spc[f] = "scraping"
  /\ proxyUrl
  /\ spc' = [spc EXCEPT ![f] = IF proxyBrowser # 0 THEN "proxyScraping" ELSE "proxyLaunching"]
  /\ UNCHANGED <<cfgVars, callVars, feeds, articles, fpc, fmode, ret, lastXml, updVars, pipeVars,
                 browserVars, scrapeWaiting, intervalCount>>

\* scrapeWithBrowser rejected and there is no retry: null.
ScrapeFailed(f) ==
  /\ spc[f] = "scraping"
  /\ scrapeLoopResume(f, "null")
  /\ UNCHANGED <<browserVars, intervalCount>>

ProxyLaunchOk(f) ==
  /\ spc[f] = "proxyLaunching"
  /\ proxyBrowser' = 1
  /\ openInst' = openInst + 1
  /\ spc' = [spc EXCEPT ![f] = "proxyScraping"]
  /\ UNCHANGED <<cfgVars, callVars, feeds, articles, fpc, fmode, ret, lastXml, updVars, pipeVars,
                 browser, scrapeWaiting, intervalCount>>

ProxyLaunchFail(f) ==
  /\ spc[f] = "proxyLaunching"
  /\ scrapeLoopResume(f, "null")
  /\ UNCHANGED <<browserVars, intervalCount>>

ProxyScrapeResolved(f) ==
  /\ spc[f] = "proxyScraping"
  /\ \E r \in ScrapedTexts \cup {"null"} : scrapeLoopResume(f, r)
  /\ UNCHANGED <<browserVars, intervalCount>>

ProxyScrapeFailed(f) ==
  /\ spc[f] = "proxyScraping"
  /\ scrapeLoopResume(f, "null")
  /\ UNCHANGED <<browserVars, intervalCount>>

\* close(): both browsers the service holds are closed and forgotten.
scraperClose ==
  /\ openInst' = openInst - browser - proxyBrowser
  /\ browser' = 0
  /\ proxyBrowser' = 0

\* ------------------------------------------------------ run: LLM queue

updateArticleAnalysis(rows, id, isInteresting) ==
  {IF r.id = id THEN [r EXCEPT !.analysis = IF isInteresting THEN "yes" ELSE "no"] ELSE r
     : r \in rows}

SeqRange(s) == {s[i] : i \in 1..Len(s)}

\* The filter results analyzeArticles still has to walk (the ids of articles
\* of the batch, in order) and the ids judged interesting.
NoFilter == [todo |-> <<>>, interesting |-> {}]

\* The for loop over filterResults from `left` on, up to the summarize call of
\* the next interesting article: the result of an article that is not
\* interesting is stored at once.
RECURSIVE analyzeLoop(_, _, _)
analyzeLoop(rows, left, interesting) ==
  IF left = <<>> \/ Head(left) \in interesting
    THEN [rows |-> rows, todo |-> left]
    ELSE analyzeLoop(updateArticleAnalysis(rows, Head(left), FALSE), Tail(left),
                     interesting)

\* Variant: a task without the finally.
llmTaskNoFinally(c) == c

\* The finally of the llmQueue task.
llmTaskFinally(c) == [c EXCEPT !.llmPendingFeeds = @ - 1]

othersOfLlm ==
  <<cfgVars, callVars, feeds, fpc, fmode, ret, lastXml, updVars, pc, rssWaiting, batch, toScrape,
    scraped, updateOutput, browserVars, queueVars>>

\* analyzeArticles from the loop on, then the task of run.ts when the loop
\* has ended: it counts the batch and the interesting results.
continueAnalysis(f, rows, left, interesting) ==
  LET r == analyzeLoop(rows, left, interesting)
  IN /\ articles' = r.rows
     /\ IF r.todo # <<>>
          THEN /\ filt' = [filt EXCEPT ![f] = [todo |-> r.todo, interesting |-> interesting]]
               /\ llm' = [llm EXCEPT ![f] = "summarize"]
               /\ UNCHANGED <<cnt, mainPc>>
          ELSE /\ filt' = [filt EXCEPT ![f] = NoFilter]
               /\ cnt' = llmTaskFinally(
                            [cnt EXCEPT !.llmAnalyzed = @ + Len(batch[f]),
                                        !.llmInteresting = @ + Cardinality(interesting)])
               /\ llm' = [llm EXCEPT ![f] = "done"]
               /\ mainPc' = mainAfterLlmTask(llm')

\* The LLM queue starts the feed's task: analyzeArticles up to the filter call.
LlmStart(f) ==
  /\ llm[f] = "queued"
  /\ llmWaiting # <<>> /\ Head(llmWaiting) = f
  /\ llmQueueHasSlot
  /\ llm' = [llm EXCEPT ![f] = "filter"]
  /\ llmWaiting' = Tail(llmWaiting)
  /\ UNCHANGED <<articles, filt, cnt, mainPc, othersOfLlm>>

\* The filter call rejected or its answer holds no JSON: analyzeArticles
\* throws, the task catches, logs and runs its finally.
LlmFilterFail(f) ==
  /\ llm[f] = "filter"
  /\ llm' = [llm EXCEPT ![f] = "failed"]
  /\ cnt' = llmTaskFinally(cnt)
  /\ mainPc' = mainAfterLlmTask(llm')
  /\ UNCHANGED <<articles, filt, llmWaiting, othersOfLlm>>

\* The filter answered for the articles `answered` of the batch, `interesting`
\* among them.
LlmFilterOk(f) ==
  /\ llm[f] = "filter"
  /\ \E answered \in SUBSET SeqRange(batch[f]) : \E interesting \in SUBSET answered :
       continueAnalysis(f, articles, SortedIds(answered), interesting)
  /\ UNCHANGED <<llmWaiting, othersOfLlm>>

\* The summarize call of an interesting article is over (a failed one falls
\* back inside analyzeArticles): its result is stored and the loop goes on.
LlmSummarized(f) ==
  /\ llm[f] = "summarize"
  /\ continueAnalysis(f, updateArticleAnalysis(articles, Head(filt[f].todo), TRUE),
                      Tail(filt[f].todo), filt[f].interesting)
  /\ UNCHANGED <<llmWaiting, othersOfLlm>>

\* ------------------------------------------------------ run: the command

\* `rss run`: every feed is added to the RSS queue.
RunCommand ==
  /\ cmd = "run"
  /\ mainPc = "idle"
  /\ mainPc' = "awaitRss"
  /\ rssWaiting' = [i \in 1..NumFeeds |-> i]
  /\ pc' = [f \in Feeds |-> "queued"]
  /\ cnt' = [cnt EXCEPT !.rssTotal = NumFeeds]
  /\ UNCHANGED <<cfgVars, callVars, feeds, articles, fpc, fmode, ret, lastXml, updVars, batch, toScrape,
                 scraped, llm, llmWaiting, filt, updateOutput, browserVars, queueVars>>

\* The RSS queue starts processRssFeed(feed): step 1 up to the first doFetch.
StartFeedTask(f) ==
  /\ pc[f] = "queued"
  /\ rssWaiting # <<>> /\ Head(rssWaiting) = f
  /\ rssQueueHasSlot
  /\ ~opts.skipUpdate
  /\ rssWaiting' = Tail(rssWaiting)
  /\ pc' = [pc EXCEPT ![f] = "update"]
  /\ fpc' = [fpc EXCEPT ![f] = "fetch1"]
  /\ fmode' = [fmode EXCEPT ![f] = determineMode(feeds[f])]
  /\ UNCHANGED <<cfgVars, callVars, feeds, articles, ret, lastXml, updVars, mainPc, batch, toScrape,
                 scraped, llm, llmWaiting, filt, cnt, updateOutput, browserVars, queueVars>>

\* ... with --skip-update it goes straight to step 2.
StartFeedTaskSkipUpdate(f) ==
  /\ pc[f] = "queued"
  /\ rssWaiting # <<>> /\ Head(rssWaiting) = f
  /\ rssQueueHasSlot
  /\ opts.skipUpdate
  /\ rssWaiting' = Tail(rssWaiting)
  /\ selectAndContinue(f, articles, cnt)
  /\ UNCHANGED <<cfgVars, callVars, feeds, articles, fpc, fmode, ret, lastXml, updVars, scraped,
                 filt, updateOutput, browserVars, intervalCount>>

\* The completion message: const scrapeSuccess = scrapedArticles - scrapeErrors.
scrapeSuccess(c) == c.scrapedArticles - c.scrapeErrors

\* finally: await scraperService.close() returned; the run is over.
RunFinally ==
  /\ mainPc = "closing"
  /\ scraperClose
  /\ mainPc' = "done"
  /\ UNCHANGED <<cfgVars, callVars, feeds, articles, fpc, fmode, ret, lastXml, updVars, pc, rssWaiting,
                 batch, toScrape, scraped, llm, llmWaiting, filt, cnt, updateOutput, queueVars>>

\* ------------------------------------------- LlmService.analyzeArticles

NumBatch == 2
MaxAnswers == 2
MaxResources == 2
MaxUsage == 2

\* The ids a filter response may name: those of the articles of the batch and
\* one that is the id of none of them.
AnswerIds == 1..(NumBatch + 1)

\* filterArticles maps each entry of parsed.results, as the model gave them.
FilterResultsOfModel == [articleId : AnswerIds, isInteresting : BOOLEAN]
FilterResponses == SeqsUpTo(FilterResultsOfModel, MaxAnswers)

\* A resource name as its words.  normalizeResourceName applies its patterns
\* once each, in their order: a company suffix at the end, then "by <word>"
\* at the end.
CompanySuffixes ==
  <<"(Anthropic)", "(Google)", "(OpenAI)", "(Microsoft)", "(Meta)", "(Facebook)",
    "(Amazon)", "(Apple)", "(Netflix)", "(Vercel)", "(GitHub)">>

RECURSIVE replaceSuffixes(_, _)
replaceSuffixes(name, i) ==
  IF i > Len(CompanySuffixes) THEN name
  ELSE replaceSuffixes(IF name # <<>> /\ name[Len(name)] = CompanySuffixes[i]
                         THEN SubSeq(name, 1, Len(name) - 1) ELSE name,
                       i + 1)

replaceBy(name) ==
  IF Len(name) >= 2 /\ name[Len(name) - 1] = "by"
    THEN SubSeq(name, 1, Len(name) - 2) ELSE name

normalizeResourceName(name) == replaceBy(replaceSuffixes(name, 1))

\* The resources a summarize response may list (description "none": absent).
ExtractedResources ==
  {[name |-> <<"Claude", "(Anthropic)">>, type |-> "tool", relevance |-> "main",
    description |-> "a"],
   [name |-> <<"Claude">>, type |-> "tool", relevance |-> "main", description |-> "b"],
   [name |-> <<"Claude">>, type |-> "tool", relevance |-> "mentioned", description |-> "a"],
   [name |-> <<"Vite", "by", "Evan">>, type |-> "tool", relevance |-> "compared",
    description |-> "none"],
   [name |-> <<"Claude">>, type |-> "library", relevance |-> "main", description |-> "none"]}
ResourceLists == SeqsUpTo(ExtractedResources, MaxResources)

Usages == 1..MaxUsage

\* --- CacheService: resources and article_resources

getResourceByNameAndType(rows, name, type) == {r \in rows : r.name = name /\ r.type = type}

\* An existing row gets mention_count + 1 and the input's description when it
\* has one; otherwise a row is inserted (mention_count DEFAULT 1).
addOrUpdateResource(rows, input) ==
  IF getResourceByNameAndType(rows, input.name, input.type) # {}
    THEN {IF r.name = input.name /\ r.type = input.type
            THEN [r EXCEPT !.mention_count = @ + 1,
                           !.description = IF input.description # "none"
                                             THEN input.description ELSE @]
            ELSE r : r \in rows}
    ELSE rows \cup {[id |-> Cardinality(rows) + 1, name |-> input.name, type |-> input.type,
                     description |-> input.description, mention_count |-> 1]}

updateResourceDescription(rows, id, description) ==
  {IF r.id = id THEN [r EXCEPT !.description = description] ELSE r : r \in rows}

incrementResourceMentionCount(rows, id) ==
  {IF r.id = id THEN [r EXCEPT !.mention_count = @ + 1] ELSE r : r \in rows}

\* INSERT under UNIQUE(article_id, resource_id); the constraint error is swallowed.
linkArticleResource(rows, input) ==
  IF \E l \in rows : l.article_id = input.article_id /\ l.resource_id = input.resource_id
    THEN rows
    ELSE rows \cup {input}

\* --- addOrUpdateResourceWithMerge and the resource loop of analyzeArticles

normalizedInput(res) == [res EXCEPT !.name = normalizeResourceName(res.name)]

\* The descriptions are merged by the model when both have content and differ.
needsMerge(rows, res) ==
  \E r \in getResourceByNameAndType(rows, normalizeResourceName(res.name), res.type) :
    r.description # "none" /\ res.description # "none" /\ r.description # res.description

\* addOrUpdateResourceWithMerge after the merge, if there was one: count the
\* mention of an existing row, then addOrUpdateResource; then the link.
\* db is [resources, links, extracted].
saveResource(db, articleId, res) ==
  LET input == normalizedInput(res)
      existing == getResourceByNameAndType(db.resources, input.name, input.type)
      counted == IF existing # {}
                   THEN incrementResourceMentionCount(db.resources,
                                                      (CHOOSE r \in existing : TRUE).id)
                   ELSE db.resources
      saved == addOrUpdateResource(counted, input)
      savedResource == CHOOSE r \in saved : r.name = input.name /\ r.type = input.type
  IN [resources |-> saved,
      links |-> linkArticleResource(db.links,
                  [article_id |-> articleId, resource_id |-> savedResource.id,
                   relevance |-> res.relevance]),
      extracted |-> Append(db.extracted, [article_id |-> articleId, res |-> res])]

\* Variant: every extracted resource is saved, whatever its relevance.
shouldSaveAnyResource(res) == TRUE

\* Only the resources of relevance main are saved.
shouldSaveResource(res) == res.relevance = "main"

\* for (const res of result.resources) from `left` on, up to the await of a
\* merge call or the end of the list.
RECURSIVE saveResourcesLoop(_, _, _)
saveResourcesLoop(db, articleId, left) ==
  IF left = <<>> THEN [db |-> db, left |-> left]
  ELSE IF ~shouldSaveResource(Head(left))
    THEN saveResourcesLoop(
           [db EXCEPT !.extracted = Append(@, [article_id |-> articleId, res |-> Head(left)])],
           articleId, Tail(left))
  ELSE IF needsMerge(db.resources, Head(left)) THEN [db |-> db, left |-> left]
  ELSE saveResourcesLoop(saveResource(db, articleId, Head(left)), articleId, Tail(left))

\* --- analyzeArticles

BatchIds == {r.id : r \in articles}

AnalysisResult(flt, summary) ==
  [articleId |-> flt.articleId, isInteresting |-> flt.isInteresting, summary |-> summary]

\* articles.find((a) => a.id === filter.articleId)
articleFound(rows, flt) == \E r \in rows : r.id = flt.articleId

\* for (const filter of filterResults) from `left` on, up to the await of the
\* summarize call of an interesting article or the return.
RECURSIVE walkFilterResults(_, _, _)
walkFilterResults(rows, left, out) ==
  IF left = <<>> THEN [rows |-> rows, left |-> left, out |-> out, pc |-> "returned"]
  ELSE IF ~articleFound(rows, Head(left))
    THEN walkFilterResults(rows, Tail(left), out)
  ELSE IF withSummary /\ Head(left).isInteresting
    THEN [rows |-> rows, left |-> left, out |-> out, pc |-> "summarize"]
  ELSE walkFilterResults(
         updateArticleAnalysis(rows, Head(left).articleId, Head(left).isInteresting),
         Tail(left), Append(out, AnalysisResult(Head(left), "none")))

\* The loop goes on; mc is modelCalls as the turn left it so far.
walkOn(rows, left, out, mc) ==
  LET w == walkFilterResults(rows, left, out)
  IN /\ articles' = w.rows
     /\ filterResults' = w.left
     /\ analysisResults' = w.out
     /\ aPc' = w.pc
     /\ pending' = <<>>
     /\ modelCalls' = IF w.pc = "summarize" THEN [mc EXCEPT !.summarize = @ + 1] ELSE mc

\* The article in hand is through with `summary`: its analysis is stored, its
\* result pushed, and the loop goes on.
finishArticle(summary, mc) ==
  walkOn(updateArticleAnalysis(articles, Head(filterResults).articleId,
                               Head(filterResults).isInteresting),
         Tail(filterResults),
         Append(analysisResults, AnalysisResult(Head(filterResults), summary)), mc)

\* The resource loop goes on from `left` with the tables db.
saveOn(db, left, mc) ==
  LET s == saveResourcesLoop(db, Head(filterResults).articleId, left)
  IN /\ resources' = s.db.resources
     /\ articleResources' = s.db.links
     /\ extracted' = s.db.extracted
     /\ IF s.left # <<>>
          THEN /\ aPc' = "merge"
               /\ pending' = s.left
               /\ modelCalls' = [mc EXCEPT !.merge = @ + 1]
               /\ UNCHANGED <<articles, filterResults, analysisResults>>
          ELSE finishArticle("full", mc)

tables == [resources |-> resources, links |-> articleResources, extracted |-> extracted]

\* chatCompletion(messages, tokenUsage?) adds data.usage to the tokenUsage it
\* was given, if it was given one.
addUsage(total, usage, given) == IF given THEN total + usage ELSE total

\* Variant: a filter response without JSON taken as an empty list of results.
filterFailureSwallowed(rows) ==
  [rows |-> rows, left |-> <<>>, out |-> <<>>, pc |-> "returned"]

\* filterArticles throws (the request failed, or no JSON that parses): so
\* does analyzeArticles, before its loop.
filterFailed(rows) ==
  [rows |-> rows, left |-> <<>>, out |-> <<>>, pc |-> "thrown"]

othersOfCall ==
  <<cfgVars, feeds, fpc, fmode, ret, lastXml, updVars, pipeVars, browserVars, queueVars,
    prompts>>

\* analyzeArticles(articles, withSummary, onProgress) up to the filter call.
AnalyzeArticles ==
  /\ aPc = "idle"
  /\ aPc' = "filter"
  /\ withSummary' \in BOOLEAN
  /\ UNCHANGED <<articles, filterResults, analysisResults, pending, tokenUsage, modelCalls,
                 resources, articleResources, extracted, othersOfCall>>

\* The filter request failed: filterArticles and analyzeArticles throw.
FilterRejected ==
  /\ aPc = "filter"
  /\ LET w == filterFailed(articles)
     IN /\ aPc' = w.pc
        /\ articles' = w.rows
        /\ filterResults' = w.left
        /\ analysisResults' = w.out
  /\ modelCalls' = [modelCalls EXCEPT !.filter = "failed"]
  /\ UNCHANGED <<withSummary, pending, tokenUsage, resources, articleResources, extracted,
                 othersOfCall>>

\* The filter response holds no JSON that parses: the same, the usage counted.
FilterUnparseable ==
  /\ aPc = "filter"
  /\ LET w == filterFailed(articles)
     IN /\ aPc' = w.pc
        /\ articles' = w.rows
        /\ filterResults' = w.left
        /\ analysisResults' = w.out
  /\ \E u \in Usages :
       /\ tokenUsage' = addUsage(tokenUsage, u, TRUE)
       /\ modelCalls' = [modelCalls EXCEPT !.usage = @ + u, !.filter = "noJson"]
  /\ UNCHANGED <<withSummary, pending, resources, articleResources, extracted,
                 othersOfCall>>

\* The filter response parsed: the loop over its results begins.
FilterAnswered ==
  /\ aPc = "filter"
  /\ \E u \in Usages : \E response \in FilterResponses :
       /\ tokenUsage' = addUsage(tokenUsage, u, TRUE)
       /\ walkOn(articles, response, <<>>,
                 [modelCalls EXCEPT !.usage = @ + u, !.filter = "parsed"])
  /\ UNCHANGED <<withSummary, resources, articleResources, extracted, othersOfCall>>

\* The summarize request failed: the fallback summarizeArticle(article).
SummarizeRejected ==
  /\ aPc = "summarize"
  /\ aPc' = "fallback"
  /\ modelCalls' = [modelCalls EXCEPT !.fallback = @ + 1]
  /\ UNCHANGED <<articles, withSummary, filterResults, analysisResults, pending, tokenUsage,
                 resources, articleResources, extracted, othersOfCall>>

\* The summarize response holds no JSON that parses: summarizeAndExtractResources
\* returns its placeholder summary and no resources.
SummarizeUnparseable ==
  /\ aPc = "summarize"
  /\ \E u \in Usages :
       /\ tokenUsage' = addUsage(tokenUsage, u, TRUE)
       /\ finishArticle("unparsed", [modelCalls EXCEPT !.usage = @ + u])
  /\ UNCHANGED <<withSummary, resources, articleResources, extracted, othersOfCall>>

\* The summarize response parsed: its resources are saved.
SummarizeAnswered ==
  /\ aPc = "summarize"
  /\ \E u \in Usages : \E list \in ResourceLists :
       /\ tokenUsage' = addUsage(tokenUsage, u, TRUE)
       /\ saveOn(tables, list, [modelCalls EXCEPT !.usage = @ + u])
  /\ UNCHANGED <<withSummary, othersOfCall>>

\* mergeResourceDescriptions answered: its call carries no tokenUsage.  The
\* merged description is stored, then the resource is saved as any other.
MergeAnswered ==
  /\ aPc = "merge"
  /\ \E u \in Usages :
       LET res == Head(pending)
           existing == CHOOSE r \in getResourceByNameAndType(
                         resources, normalizeResourceName(res.name), res.type) : TRUE
           merged == [tables EXCEPT !.resources =
                        updateResourceDescription(@, existing.id, "merged")]
       IN /\ tokenUsage' = addUsage(tokenUsage, u, FALSE)
          /\ saveOn(saveResource(merged, Head(filterResults).articleId, res), Tail(pending),
                    [modelCalls EXCEPT !.usage = @ + u])
  /\ UNCHANGED <<withSummary, othersOfCall>>

\* The merge request failed: the description stays, the resource is saved.
MergeRejected ==
  /\ aPc = "merge"
  /\ saveOn(saveResource(tables, Head(filterResults).articleId, Head(pending)),
            Tail(pending), modelCalls)
  /\ UNCHANGED <<withSummary, tokenUsage, othersOfCall>>

\* summarizeArticle answered: its call carries no tokenUsage.
FallbackAnswered ==
  /\ aPc = "fallback"
  /\ \E u \in Usages :
       /\ tokenUsage' = addUsage(tokenUsage, u, FALSE)
       /\ finishArticle("simple", [modelCalls EXCEPT !.usage = @ + u])
  /\ UNCHANGED <<withSummary, resources, articleResources, extracted, othersOfCall>>

\* summarizeArticle failed too: the result has no summary.
FallbackRejected ==
  /\ aPc = "fallback"
  /\ finishArticle("none", modelCalls)
  /\ UNCHANGED <<withSummary, tokenUsage, resources, articleResources, extracted,
                 othersOfCall>>

\* ------------------------------------- run: the LLM task and its tokens

\* The same task with the token accounting of its analyzeArticles call and of
\* the onProgress callback it passes.  The LLM queue has its default width of
\* 1, so one call is in progress at a time and tokenUsage is its counter.

\* onProgress of run.ts for a progress of phase "summarize": the run's
\* tokenUsage takes the values of progress.tokens.
onProgress(c, tokens) == [c EXCEPT !.totalTokens = tokens]

othersOfBatch ==
  <<cfgVars, feeds, fpc, fmode, ret, lastXml, updVars, pc, rssWaiting, batch, toScrape,
    scraped, updateOutput, browserVars, queueVars, aPc, withSummary, filterResults,
    analysisResults, pending, resources, articleResources, extracted, prompts>>

\* analysisResults.filter((r) => r.isInteresting).length, the results being
\* one for each filter result `answered` names (articles of the batch, an
\* article as often as the response names it).
interestingResults(answered, interesting) ==
  Cardinality({i \in 1..Len(answered) : answered[i] \in interesting})

\* analyzeArticles from the loop on, its counter at `tokens`: onProgress is
\* called before the summarize call of the next interesting article.  When
\* the loop has ended the task counts the batch and the `count` interesting
\* results.
continueBatch(f, rows, left, interesting, count, tokens) ==
  LET r == analyzeLoop(rows, left, interesting)
  IN /\ articles' = r.rows
     /\ tokenUsage' = tokens
     /\ IF r.todo # <<>>
          THEN /\ filt' = [filt EXCEPT ![f] = [todo |-> r.todo, interesting |-> interesting,
                                               count |-> count]]
               /\ llm' = [llm EXCEPT ![f] = "summarize"]
               /\ cnt' = onProgress(cnt, tokens)
               /\ UNCHANGED mainPc
          ELSE /\ filt' = [filt EXCEPT ![f] = NoFilter]
               /\ cnt' = llmTaskFinally(
                            [cnt EXCEPT !.llmAnalyzed = @ + Len(batch[f]),
                                        !.llmInteresting = @ + count])
               /\ llm' = [llm EXCEPT ![f] = "done"]
               /\ mainPc' = mainAfterLlmTask(llm')

\* The task starts: analyzeArticles begins with a counter of its own.
BatchStart(f) ==
  /\ llm[f] = "queued"
  /\ llmWaiting # <<>> /\ Head(llmWaiting) = f
  /\ llmQueueHasSlot
  /\ llm' = [llm EXCEPT ![f] = "filter"]
  /\ llmWaiting' = Tail(llmWaiting)
  /\ tokenUsage' = 0
  /\ UNCHANGED <<articles, filt, cnt, mainPc, modelCalls, othersOfBatch>>

\* The filter request rejected: no usage, the task ends in its catch.
BatchFilterFail(f) ==
  /\ llm[f] = "filter"
  /\ llm' = [llm EXCEPT ![f] = "failed"]
  /\ cnt' = llmTaskFinally(cnt)
  /\ mainPc' = mainAfterLlmTask(llm')
  /\ UNCHANGED <<articles, filt, llmWaiting, tokenUsage, modelCalls, othersOfBatch>>

\* The filter call answered, reporting usage u: its results name the
\* articles `answered` of the batch, in any order and possibly more than
\* once, those in `interesting` as interesting.
BatchFilterOk(f) ==
  /\ llm[f] = "filter"
  /\ \E u \in Usages : \E answered \in SeqsUpTo(SeqRange(batch[f]), MaxAnswers) :
       \E interesting \in SUBSET SeqRange(answered) :
         /\ modelCalls' = [modelCalls EXCEPT !.usage = @ + u]
         /\ continueBatch(f, articles, answered, interesting,
                          interestingResults(answered, interesting),
                          addUsage(tokenUsage, u, TRUE))
  /\ UNCHANGED <<llmWaiting, othersOfBatch>>

\* The summarize call of an interesting article answered, reporting usage u.
BatchSummarized(f) ==
  /\ llm[f] = "summarize"
  /\ \E u \in Usages :
       /\ modelCalls' = [modelCalls EXCEPT !.usage = @ + u]
       /\ continueBatch(f, updateArticleAnalysis(articles, Head(filt[f].todo), TRUE),
                        Tail(filt[f].todo), filt[f].interesting, filt[f].count,
                        addUsage(tokenUsage, u, TRUE))
  /\ UNCHANGED <<llmWaiting, othersOfBatch>>

\* ---------------------------------- analyzeArticles: snapshots and prompts

\* article.content as the feed delivered it: none, markup with text in it, or
\* markup of images only.  text_snapshot is a length, 0 when there is none.
Contents == {"none", "markup", "images"}

\* htmlToPlainText: nothing for no content; convert() leaves the text of the
\* markup and skips <img>.
htmlToPlainText(html) == IF html = "markup" THEN 150 ELSE 0

\* The loop at the top of analyzeArticles: an article without a snapshot and
\* with content gets the plain text of its content as its snapshot.
makeSnapshots(rows) ==
  {IF r.text_snapshot = 0 /\ r.content # "none"
     THEN [r EXCEPT !.text_snapshot = htmlToPlainText(r.content)]
     ELSE r : r \in rows}

\* Which field of the article a prompt takes its article text from.
\* buildFilterPrompt: (a.content || '').slice(0, 1500).
filterPromptText(a) == IF a.content # "none" THEN "content" ELSE "empty"

\* summarizeAndExtractResources: article.text_snapshot || article.content || '(无内容)'.
summarizePromptText(a) ==
  IF a.text_snapshot # 0 THEN "text_snapshot"
  ELSE IF a.content # "none" THEN "content"
  ELSE "placeholder"

\* summarizeArticle: article.content || '(无内容)'.
fallbackPromptText(a) == IF a.content # "none" THEN "content" ELSE "placeholder"

PromptOf(phase, a, text) == [phase |-> phase, articleId |-> a.id, text |-> text]

RECURSIVE filterPrompts(_, _)
filterPrompts(rows, ids) ==
  IF ids = <<>> THEN <<>>
  ELSE <<PromptOf("filter", RowOf(rows, Head(ids)), filterPromptText(RowOf(rows, Head(ids))))>>
         \o filterPrompts(rows, Tail(ids))

othersOfPrompt ==
  <<cfgVars, feeds, fpc, fmode, ret, lastXml, updVars, pipeVars, browserVars, queueVars,
    withSummary, analysisResults, pending, tokenUsage, modelCalls, resources,
    articleResources, extracted>>

\* analyzeArticles up to the filter call: the snapshots, then the filter prompt.
SnapshotsAndFilterPrompt ==
  /\ aPc = "idle"
  /\ aPc' = "filter"
  /\ articles' = makeSnapshots(articles)
  /\ prompts' = prompts \o filterPrompts(articles', SortedIds({r.id : r \in articles}))
  /\ UNCHANGED <<filterResults, othersOfPrompt>>

\* The filter answered, `interesting` being the articles it found
\* interesting: on to the summarize prompt of the first of them.
FilterAnsweredForPrompts ==
  /\ aPc = "filter"
  /\ \E interesting \in SUBSET {r.id : r \in articles} :
       /\ filterResults' = SortedIds(interesting)
       /\ aPc' = IF interesting = {} THEN "returned" ELSE "summarize"
  /\ UNCHANGED <<articles, prompts, othersOfPrompt>>

\* The summarize prompt of an interesting article is built and the call
\* answers, or fails with the fallback prompt built after it.
SummarizePrompt ==
  /\ aPc = "summarize"
  /\ LET a == RowOf(articles, Head(filterResults))
         summarize == PromptOf("summarize", a, summarizePromptText(a))
         fallback == PromptOf("fallback", a, fallbackPromptText(a))
     IN \E failed \in BOOLEAN :
          prompts' = IF failed THEN prompts \o <<summarize, fallback>>
                               ELSE Append(prompts, summarize)
  /\ filterResults' = Tail(filterResults)
  /\ aPc' = IF filterResults' = <<>> THEN "returned" ELSE "summarize"
  /\ UNCHANGED <<articles, othersOfPrompt>>

\* ----------------------------------------------------------------- Init

MaxRssWidth == 1
MaxLlmWidth == 2

\* The options of `rss run`; analyze stands for "--skip-analyze is absent and
\* the LLM key is set".  A width option is absent (0) or a width: any up to
\* MaxRssWidth for --rss-concurrency, MaxLlmWidth for --llm-concurrency.
RunOptions ==
  [skipUpdate : BOOLEAN, skipScrape : BOOLEAN, analyze : BOOLEAN,
   rssConcurrency : 0..MaxRssWidth, llmConcurrency : {0, MaxLlmWidth}]

DefaultOptions ==
  [skipUpdate |-> FALSE, skipScrape |-> FALSE, analyze |-> TRUE,
   rssConcurrency |-> 0, llmConcurrency |-> 0]

FeedRows ==
  [name : Names, proxy_mode : {"auto", "direct", "proxy"},
   direct_success_count : {0}, proxy_success_count : {0}, last_fetched_at : {0}]

ZeroCounters ==
  [totalNewArticles |-> 0, rssCompleted |-> 0, rssTotal |-> 0, scrapedArticles |-> 0,
   scrapeTotal |-> 0, scrapeErrors |-> 0, llmTotalArticles |-> 0, llmAnalyzed |-> 0,
   llmInteresting |-> 0, llmPendingFeeds |-> 0, totalTokens |-> 0]

\* The table after an earlier update stored the first entry of every feed.
StoredBefore ==
  addArticles({}, [f \in Feeds |-> ArticleInputs(f, <<Item(1)>>)[1]]).rows

\* Nothing is in flight: no command, no fetch, no task, no browser.
NoCalls == [filter |-> "none", summarize |-> 0, fallback |-> 0, merge |-> 0, usage |-> 0]

InitIdle ==
  /\ aPc = "idle"
  /\ withSummary = FALSE
  /\ filterResults = <<>>
  /\ analysisResults = <<>>
  /\ pending = <<>>
  /\ tokenUsage = 0
  /\ modelCalls = NoCalls
  /\ resources = {}
  /\ articleResources = {}
  /\ extracted = <<>>
  /\ prompts = <<>>
  /\ fpc = [f \in Feeds |-> "idle"]
  /\ fmode = [f \in Feeds |-> "direct"]
  /\ ret = [f \in Feeds |-> NoRet]
  /\ lastXml = [f \in Feeds |-> NoXml]
  /\ upc = "idle"
  /\ todo = <<>>
  /\ results = [n \in Names |-> NoResult]
  /\ ncmd = 0
  /\ mainPc = "idle"
  /\ pc = [f \in Feeds |-> "none"]
  /\ rssWaiting = <<>>
  /\ batch = [f \in Feeds |-> <<>>]
  /\ toScrape = [f \in Feeds |-> <<>>]
  /\ scraped = [f \in Feeds |-> {}]
  /\ llm = [f \in Feeds |-> "none"]
  /\ llmWaiting = <<>>
  /\ filt = [f \in Feeds |-> NoFilter]
  /\ cnt = ZeroCounters
  /\ updateOutput = [n \in Names |-> NoResult]
  /\ browser = 0
  /\ proxyBrowser = 0
  /\ openInst = 0
  /\ spc = [f \in Feeds |-> "none"]
  /\ scrapeWaiting = <<>>
  /\ intervalCount = 0

InitCommon ==
  /\ proxyUrl \in BOOLEAN
  /\ feeds \in [Feeds -> FeedRows]
  /\ feeds[1].name = 1
  /\ InitIdle

InitUpdate ==
  /\ cmd = "update"
  /\ opts = DefaultOptions
  /\ articles = {}
  /\ InitCommon

\* `rss run` on feeds in auto mode that carry their own names, the table
\* holding what an earlier update stored.
Init ==
  /\ cmd = "run"
  /\ opts \in RunOptions
  /\ articles = StoredBefore
  /\ InitCommon
  /\ \A f \in Feeds : feeds[f].proxy_mode = "auto" /\ feeds[f].name = ((f - 1) % NumNames) + 1

FetchNext ==
  \E f \in Feeds :
    \/ FetchFirstOk(f)
    \/ FetchFirstFailRetry(f)
    \/ FetchFirstFailThrow(f)
    \/ FetchSecondOk(f)
    \/ FetchSecondFail(f)
    \/ ParseOk(f)
    \/ ParseFail(f)

ScraperNext ==
  \/ IntervalElapsed
  \/ \E f \in Feeds :
       \/ ScrapeStart(f)
       \/ LaunchOk(f)
       \/ LaunchFail(f)
       \/ ScrapeResolved(f)
       \/ ScrapeTimedOutRetry(f)
       \/ ScrapeFailed(f)
       \/ ProxyLaunchOk(f)
       \/ ProxyLaunchFail(f)
       \/ ProxyScrapeResolved(f)
       \/ ProxyScrapeFailed(f)

LlmNext ==
  \E f \in Feeds :
    \/ LlmStart(f)
    \/ LlmFilterFail(f)
    \/ LlmFilterOk(f)
    \/ LlmSummarized(f)

NextUpdate ==
  \/ \E target \in 0..NumFeeds : UpdateCommand(target)
  \/ FetchNext

Next ==
  \/ RunCommand
  \/ \E f \in Feeds : StartFeedTask(f) \/ StartFeedTaskSkipUpdate(f)
  \/ FetchNext
  \/ ScraperNext
  \/ LlmNext
  \/ RunFinally

SpecUpdate == InitUpdate /\ [][NextUpdate]_vars

\* The mode selector on its own: the first feed's row carries any configured
\* mode and any history of successes up to MaxCount; a fetch begins.
MaxCount == 5

InitMode ==
  /\ cmd = "update"
  /\ opts = DefaultOptions
  /\ articles = {}
  /\ proxyUrl \in BOOLEAN
  /\ feeds \in [Feeds -> [name : {1}, proxy_mode : {"auto", "direct", "proxy"},
                          direct_success_count : 0..MaxCount,
                          proxy_success_count : 0..MaxCount, last_fetched_at : {0}]]
  /\ \A f \in Feeds \ {1} : feeds[f] = [name |-> 1, proxy_mode |-> "auto",
                                         direct_success_count |-> 0,
                                         proxy_success_count |-> 0, last_fetched_at |-> 0]
  /\ InitIdle

NextMode == \E f \in Feeds : FetchBegin(f)

SpecMode == InitMode /\ [][NextMode]_vars

\* analyzeArticles on its own: one call on a batch of NumBatch stored articles.
AnalyzeBatch ==
  addArticles({}, [i \in 1..NumBatch |-> ArticleInputs(1, <<Item(i)>>)[1]]).rows

InitAnalyze ==
  /\ cmd = "run"
  /\ opts = DefaultOptions
  /\ proxyUrl = FALSE
  /\ feeds = [f \in Feeds |-> [name |-> 1, proxy_mode |-> "auto", direct_success_count |-> 0,
                                proxy_success_count |-> 0, last_fetched_at |-> 0]]
  /\ articles = AnalyzeBatch
  /\ InitIdle

NextAnalyze ==
  \/ AnalyzeArticles
  \/ FilterRejected
  \/ FilterUnparseable
  \/ FilterAnswered
  \/ SummarizeRejected
  \/ SummarizeUnparseable
  \/ SummarizeAnswered
  \/ MergeAnswered
  \/ MergeRejected
  \/ FallbackAnswered
  \/ FallbackRejected

SpecAnalyze == InitAnalyze /\ [][NextAnalyze]_vars

\* Step 2.5 on its own: `rss run --skip-update` over stored articles of feed 1
\* whose snapshots have lengths on both sides of the threshold and whose
\* links are present or not.
NumStored == 2
SnapshotLengths == {0, 150, MIN_SNAPSHOT, MIN_SNAPSHOT + 1, 250}

StoredRows(shape) ==
  {[id |-> i, feed_id |-> 1, guid |-> i, link |-> shape[i].link, pub_date |-> "recent",
    analysis |-> "none", text_snapshot |-> shape[i].text_snapshot] : i \in 1..NumStored}

InitSelect ==
  /\ cmd = "run"
  /\ opts = [DefaultOptions EXCEPT !.skipUpdate = TRUE]
  /\ proxyUrl = FALSE
  /\ feeds = [f \in Feeds |-> [name |-> 1, proxy_mode |-> "auto", direct_success_count |-> 0,
                                proxy_success_count |-> 0, last_fetched_at |-> 0]]
  /\ \E shape \in [1..NumStored -> [link : BOOLEAN, text_snapshot : SnapshotLengths]] :
       articles = StoredRows(shape)
  /\ InitIdle

NextSelect ==
  \/ RunCommand
  \/ \E f \in Feeds : StartFeedTaskSkipUpdate(f)

SpecSelect == InitSelect /\ [][NextSelect]_vars

\* The scraper in a run of its own: `rss run --skip-update` over
\* NumScrapers feeds, taken up where every feed task has selected its one
\* stored article and awaits its fetchArticleContent call, the calls waiting
\* in the scraper queue in the order of the feeds.
NumScrapers == 3
Scrapers == 1..NumScrapers

InitScrape ==
  /\ cmd = "run"
  /\ opts = [DefaultOptions EXCEPT !.skipUpdate = TRUE]
  /\ proxyUrl \in BOOLEAN
  /\ feeds = [f \in Scrapers |-> [name |-> 1, proxy_mode |-> "auto",
                                   direct_success_count |-> 0, proxy_success_count |-> 0,
                                   last_fetched_at |-> 0]]
  /\ articles = {[id |-> f, feed_id |-> f, guid |-> 1, link |-> TRUE, pub_date |-> "recent",
                  analysis |-> "none", text_snapshot |-> 0] : f \in Scrapers}
  /\ aPc = "idle"
  /\ withSummary = FALSE
  /\ filterResults = <<>>
  /\ analysisResults = <<>>
  /\ pending = <<>>
  /\ tokenUsage = 0
  /\ modelCalls = NoCalls
  /\ resources = {}
  /\ articleResources = {}
  /\ extracted = <<>>
  /\ prompts = <<>>
  /\ fpc = [f \in Scrapers |-> "idle"]
  /\ fmode = [f \in Scrapers |-> "direct"]
  /\ ret = [f \in Scrapers |-> NoRet]
  /\ lastXml = [f \in Scrapers |-> NoXml]
  /\ upc = "idle"
  /\ todo = <<>>
  /\ results = [n \in Names |-> NoResult]
  /\ ncmd = 0
  /\ mainPc = "awaitRss"
  /\ pc = [f \in Scrapers |-> "scrape"]
  /\ rssWaiting = <<>>
  /\ batch = [f \in Scrapers |-> <<f>>]
  /\ toScrape = [f \in Scrapers |-> <<f>>]
  /\ scraped = [f \in Scrapers |-> {}]
  /\ llm = [f \in Scrapers |-> "none"]
  /\ llmWaiting = <<>>
  /\ filt = [f \in Scrapers |-> NoFilter]
  /\ cnt = [ZeroCounters EXCEPT !.rssTotal = NumScrapers, !.scrapeTotal = NumScrapers]
  /\ updateOutput = [n \in Names |-> NoResult]
  /\ browser = 0
  /\ proxyBrowser = 0
  /\ openInst = 0
  /\ spc = [f \in Scrapers |-> "queued"]
  /\ scrapeWaiting = [i \in 1..NumScrapers |-> i]
  /\ intervalCount = 0

NextScrape ==
  \/ IntervalElapsed
  \/ \E f \in Scrapers :
       \/ ScrapeStart(f)
       \/ LaunchOk(f)
       \/ LaunchFail(f)
       \/ ScrapeResolved(f)
       \/ ScrapeTimedOutRetry(f)
       \/ ScrapeFailed(f)
       \/ ProxyLaunchOk(f)
       \/ ProxyLaunchFail(f)
       \/ ProxyScrapeResolved(f)
       \/ ProxyScrapeFailed(f)
       \/ LlmStart(f)
       \/ LlmFilterFail(f)
       \/ LlmFilterOk(f)
       \/ LlmSummarized(f)
  \/ RunFinally

SpecScrape == InitScrape /\ [][NextScrape]_vars

\* One `rss run --skip-update --skip-scrape` after another over the same
\* stored articles, NumPerFeed of each feed.
NumPerFeed == 2
MaxReruns == 1

RerunRows ==
  {[id |-> NumPerFeed * (f - 1) + i, feed_id |-> f, guid |-> i, link |-> TRUE,
    pub_date |-> "recent", analysis |-> "none", text_snapshot |-> 250]
     : f \in Feeds, i \in 1..NumPerFeed}

InitRerun ==
  /\ cmd = "run"
  /\ opts = [DefaultOptions EXCEPT !.skipUpdate = TRUE, !.skipScrape = TRUE]
  /\ proxyUrl = FALSE
  /\ feeds = [f \in Feeds |-> [name |-> f, proxy_mode |-> "auto", direct_success_count |-> 0,
                                proxy_success_count |-> 0, last_fetched_at |-> 0]]
  /\ articles = RerunRows
  /\ InitIdle

\* The run is over and the command is given again: a new process, with the
\* tables as the last one left them.
RunAgain ==
  /\ cmd = "run"
  /\ mainPc = "done"
  /\ ncmd < MaxReruns
  /\ ncmd' = ncmd + 1
  /\ mainPc' = "idle"
  /\ pc' = [f \in Feeds |-> "none"]
  /\ batch' = [f \in Feeds |-> <<>>]
  /\ llm' = [f \in Feeds |-> "none"]
  /\ cnt' = ZeroCounters
  /\ UNCHANGED <<cfgVars, callVars, feeds, articles, fpc, fmode, ret, lastXml, upc, todo,
                 results, rssWaiting, toScrape, scraped, llmWaiting, filt, updateOutput,
                 browserVars, queueVars>>

NextRerun ==
  \/ RunCommand
  \/ \E f \in Feeds :
       \/ StartFeedTaskSkipUpdate(f)
       \/ LlmStart(f)
       \/ LlmFilterFail(f)
       \/ LlmFilterOk(f)
       \/ LlmSummarized(f)
  \/ RunFinally
  \/ RunAgain

SpecRerun == InitRerun /\ [][NextRerun]_vars

\* One such run with the tokens of its batches.
NextTokens ==
  \/ RunCommand
  \/ \E f \in Feeds :
       \/ StartFeedTaskSkipUpdate(f)
       \/ BatchStart(f)
       \/ BatchFilterFail(f)
       \/ BatchFilterOk(f)
       \/ BatchSummarized(f)
  \/ RunFinally

SpecTokens == InitRerun /\ [][NextTokens]_vars

\* `rss run --skip-scrape`, with or without --skip-update, and its progress
\* counters.
InitCounters ==
  /\ cmd = "run"
  /\ opts \in {o \in RunOptions : /\ o.skipScrape /\ o.analyze
                                   /\ o.rssConcurrency = 0 /\ o.llmConcurrency = 0}
  /\ articles = StoredBefore
  /\ proxyUrl \in BOOLEAN
  /\ feeds = [f \in Feeds |-> [name |-> f, proxy_mode |-> "auto", direct_success_count |-> 0,
                                proxy_success_count |-> 0, last_fetched_at |-> 0]]
  /\ InitIdle

NextCounters ==
  \/ RunCommand
  \/ \E f \in Feeds :
       \/ StartFeedTask(f)
       \/ StartFeedTaskSkipUpdate(f)
       \/ BatchStart(f)
       \/ BatchFilterFail(f)
       \/ BatchFilterOk(f)
       \/ BatchSummarized(f)
  \/ FetchNext
  \/ RunFinally

SpecCounters == InitCounters /\ [][NextCounters]_vars

\* analyzeArticles on a batch of NumBatch articles with or without content
\* and with or without a snapshot stored by a scrape.
PromptRows(shape) ==
  {[id |-> i, feed_id |-> 1, guid |-> i, link |-> TRUE, pub_date |-> "recent",
    analysis |-> "none", text_snapshot |-> shape[i].text_snapshot,
    content |-> shape[i].content] : i \in 1..NumBatch}

InitPrompt ==
  /\ cmd = "run"
  /\ opts = DefaultOptions
  /\ proxyUrl = FALSE
  /\ feeds = [f \in Feeds |-> [name |-> 1, proxy_mode |-> "auto", direct_success_count |-> 0,
                                proxy_success_count |-> 0, last_fetched_at |-> 0]]
  /\ \E shape \in [1..NumBatch -> [content : Contents, text_snapshot : {0, 250}]] :
       articles = PromptRows(shape)
  /\ InitIdle

NextPrompt ==
  \/ SnapshotsAndFilterPrompt
  \/ FilterAnsweredForPrompts
  \/ SummarizePrompt

SpecPrompt == InitPrompt /\ [][NextPrompt]_vars

Spec == Init /\ [][Next]_vars

\* The scheduling of run.ts: a handler whose await has settled is resumed,
\* and a queue starts a task it may start.
FairSpec == Init /\ [][Next]_vars /\ WF_vars(Next)

\* ============================================================ properties

\* C1: during a run the feed tasks executing in the RSS queue are never more
\* than the configured RSS width (5 when the option is absent) and the
\* analyzeArticles batches executing in the LLM queue never more than the
\* configured LLM width (1 when absent), whatever the RSS width is.
C1_QueueWidths ==
  /\ Cardinality({f \in Feeds : pc[f] \in {"update", "scrape"}})
       <= (IF opts.rssConcurrency = 0 THEN RSS_CONCURRENCY ELSE opts.rssConcurrency)
  /\ Cardinality({f \in Feeds : llm[f] \in {"filter", "summarize"}})
       <= (IF opts.llmConcurrency = 0 THEN LLM_CONCURRENCY ELSE opts.llmConcurrency)

\* The LLM queue is full and a batch waits, under a wider RSS queue.
C1_FullLlmQueue ==
  /\ Cardinality(LlmRunning) = llmConcurrency
  /\ llmWaiting # <<>>
  /\ rssConcurrency > llmConcurrency

\* C2: the pipeline stage of a run is over only when no feed task and no LLM
\* batch is running or queued, and the run eventually completes (every fetch,
\* scrape and model call being answered).
C2_AllSettled ==
  mainPc \in {"closing", "done"} =>
    /\ rssWaiting = <<>> /\ llmWaiting = <<>> /\ scrapeWaiting = <<>>
    /\ \A f \in Feeds : /\ pc[f] = "done"
                         /\ fpc[f] = "idle"
                         /\ spc[f] = "none"
                         /\ llm[f] \in {"none", "done", "failed"}

C2_CompletesAfterAllSettle == []C2_AllSettled /\ <>(mainPc = "done")

\* The run is over after the batch of every feed was analyzed.
C2_RunOverAfterLlm == mainPc = "done" /\ \A f \in Feeds : llm[f] = "done"

\* C3: when the run is over, close() has run after the pipeline tasks and no
\* browser instance launched during the run, main or proxy, is still open.
C3_NoBrowserLeft ==
  mainPc = "done" =>
    /\ \A f \in Feeds : pc[f] = "done" /\ spc[f] = "none"
    /\ browser = 0 /\ proxyBrowser = 0
    /\ openInst = 0

\* C4: in one feed's task updateFeed has settled before any article of the
\* feed is scraped, and the scrape of every selected article that needed one
\* has settled before the feed's batch is handed to the LLM queue.
C4_StageOrder ==
  \A f \in Feeds :
    /\ (spc[f] # "none" \/ scraped[f] # {}) =>
         (fpc[f] = "idle" /\ (opts.skipUpdate \/ ret[f].res # NoResult))
    /\ llm[f] # "none" =>
         /\ fpc[f] = "idle" /\ spc[f] = "none" /\ toScrape[f] = <<>>
         /\ ~opts.skipScrape =>
              \A i \in 1..Len(batch[f]) :
                RowOf(articles, batch[f][i]).link => batch[f][i] \in scraped[f]

\* One feed's batch is with the model, its article scraped, while another
\* feed is still being scraped.
C4_StagesOfTwoFeeds ==
  \E f, g \in Feeds :
    /\ llm[f] = "filter" /\ scraped[f] # {}
    /\ pc[g] = "scrape" /\ ret[g].res # NoResult

\* C5: there is no barrier between acquisition and analysis: when a feed's
\* task has ended, its batch (if it has one) is in the LLM queue, whatever
\* the other feeds are doing.
C5_NoPhaseBarrier ==
  \A f \in Feeds : (pc[f] = "done" /\ batch[f] # <<>>) => llm[f] # "none"

\* One feed's analysis has started while another feed's fetch is in flight.
C5_AnalysisDuringAcquisition ==
  \E f, g \in Feeds :
    /\ llm[f] \in {"filter", "summarize", "done"}
    /\ pc[g] = "update" /\ fpc[g] \in {"fetch1", "fetch2", "parse"}

\* C6: a feed whose fetch fails has the failure recorded as its result, and
\* every other feed reports a result of its own: what the caller gets for a
\* feed is what updateFeed did for that feed.
C6_ResultPerFeed ==
  upc = "done" =>
    \A f \in Feeds : ret[f].res # NoResult => results[feeds[f].name] = ret[f].res

\* C7: a failed LLM batch loses only itself: the step that fails it takes one
\* off the pending counter, changes no stored article and no other feed's
\* batch or task; the counter always is the number of tasks not ended; and
\* when the pipeline stage is over every feed with a batch had its task run.
C7_FailureStep ==
  \A f \in Feeds :
    (llm[f] = "filter" /\ llm'[f] = "failed") =>
      /\ cnt'.llmPendingFeeds = cnt.llmPendingFeeds - 1
      /\ articles' = articles
      /\ \A g \in Feeds \ {f} : llm'[g] = llm[g] /\ batch'[g] = batch[g] /\ pc'[g] = pc[g]
      /\ mainPc' \in {mainPc, "closing"}

C7_PendingCounted ==
  cnt.llmPendingFeeds = Cardinality({f \in Feeds : llm[f] \in {"queued", "filter", "summarize"}})

C7_EveryBatchRun ==
  mainPc \in {"closing", "done"} =>
    \A f \in Feeds : batch[f] # <<>> => llm[f] \in {"done", "failed"}

C7_LlmFailureIsolated ==
  []C7_PendingCounted /\ []C7_EveryBatchRun /\ [][C7_FailureStep]_vars

\* One feed's batch failed, another feed's batch was analyzed after it.
C7_FailedAndAnalyzed ==
  \E f, g \in Feeds :
    /\ llm[f] = "failed" /\ llm[g] = "done"
    /\ cnt.llmAnalyzed = Len(batch[g]) /\ cnt.llmPendingFeeds = 0

\* The step in which the updateFeed call of feed f settles.
updateFeedSettles(f) == ret'[f] # ret[f] /\ ret'[f].res # NoResult

\* C8: an updateFeed call that gets the document the feed's last call got
\* returns 0 and leaves the stored rows as they were.
C8_RepeatStep ==
  \A f \in Feeds :
    (updateFeedSettles(f) /\ ret'[f].repeat) =>
      (ret'[f].res.newCount = 0 /\ articles' = articles)

C8_UnchangedXmlAddsNothing == [][C8_RepeatStep]_vars

\* A second call got the same document of two entries.
C8_SecondCallSameXml ==
  \E f \in Feeds : ret[f].repeat /\ Len(lastXml[f]) = MaxItems /\ ret[f].res.newCount = 0

\* C9: no two stored articles share (feed_id, guid), and a call returns the
\* number of rows it added: the distinct guids of the fetched entries not
\* stored for the feed before.
C9_UniqueKey ==
  \A r1, r2 \in articles : (r1.feed_id = r2.feed_id /\ r1.guid = r2.guid) => r1 = r2

C9_CountStep ==
  \A f \in Feeds :
    (updateFeedSettles(f) /\ ret'[f].res.error = "none") =>
      LET before == {r.guid : r \in {x \in articles : x.feed_id = f}}
          fetched == {lastXml'[f][i].guid : i \in 1..Len(lastXml'[f])}
      IN /\ ret'[f].res.newCount = Cardinality(articles') - Cardinality(articles)
         /\ ret'[f].res.newCount = Cardinality(fetched \ before)
         /\ articles \subseteq articles'
         /\ \A r \in articles' \ articles : r.feed_id = f /\ r.guid \in fetched \ before

C9_DedupAndCount == []C9_UniqueKey /\ [][C9_CountStep]_vars

\* A call that got two entries added one row.
C9_PartlyNew ==
  \E f \in Feeds :
    ret[f].res.error = "none" /\ ret[f].res.newCount = 1 /\ Len(lastXml[f]) = 2

\* C10: a call whose fetch and parse succeeded updates last_fetched_at, with
\* or without new articles; a call that fails leaves last_fetched_at and the
\* stored articles as they were.
C10_Step ==
  \A f \in Feeds :
    updateFeedSettles(f) =>
      /\ ret'[f].parsed => feeds'[f].last_fetched_at # feeds[f].last_fetched_at
      /\ ret'[f].res.error # "none" =>
           (feeds'[f].last_fetched_at = feeds[f].last_fetched_at /\ articles' = articles)

C10_FetchTimeFollowsFetch == [][C10_Step]_vars

\* C11: the mode of a fetch's first attempt is the configured mode when that
\* is direct or proxy; in auto mode it is direct when both counters are zero,
\* else proxy when the proxy counter is strictly higher, else direct.
C11_ModeChosen ==
  \A f \in Feeds :
    fpc[f] = "fetch1" =>
      LET d == feeds[f].direct_success_count
          p == feeds[f].proxy_success_count
          m == feeds[f].proxy_mode
      IN /\ m = "direct" => fmode[f] = "direct"
         /\ m = "proxy" => fmode[f] = "proxy"
         /\ m = "auto" => fmode[f] = (IF p > d THEN "proxy" ELSE "direct")
         /\ (m = "auto" /\ d = 3 /\ p = 1) => fmode[f] = "direct"
         /\ (m = "auto" /\ d = 0 /\ p = 0) => fmode[f] = "direct"
         /\ (m = "auto" /\ d = 1 /\ p = 5) => fmode[f] = "proxy"

\* A fetch of an auto feed with 1 direct and 5 proxy successes began in proxy mode.
C11_ProxyPreferred ==
  /\ feeds[1].proxy_mode = "auto"
  /\ feeds[1].direct_success_count = 1 /\ feeds[1].proxy_success_count = 5
  /\ fpc[1] = "fetch1" /\ fmode[1] = "proxy"

\* C12: when the first attempt of a fetch fails, the second attempt is made
\* in the other mode and goes another way than the first (a proxy attempt
\* only with a proxy endpoint configured); failure is surfaced after one
\* attempt only when the alternative would be a proxy that is not configured;
\* after two failed attempts the error is the "both failed" one; there is no
\* third attempt.
C12_Step ==
  \A f \in Feeds :
    /\ (fpc[f] = "fetch1" /\ fpc'[f] = "fetch2") =>
         /\ fmode'[f] # fmode[f]
         /\ fmode'[f] = "proxy" => proxyUrl
         /\ transportOf(fmode'[f]) # transportOf(fmode[f])
    /\ (fpc[f] = "fetch1" /\ updateFeedSettles(f)) => (fmode[f] = "direct" /\ ~proxyUrl)
    /\ (fpc[f] = "fetch2" /\ fpc'[f] # "fetch2") => fpc'[f] \in {"parse", "idle"}
    /\ (fpc[f] = "fetch2" /\ updateFeedSettles(f)) =>
         ret'[f].res.error = "Both direct and proxy connections failed"

C13_Step ==
  \A f \in Feeds :
    LET d == feeds[f].direct_success_count
        p == feeds[f].proxy_success_count
        dn == feeds'[f].direct_success_count
        pn == feeds'[f].proxy_success_count
    IN /\ dn >= d /\ pn >= p
       /\ IF fpc[f] \in {"fetch1", "fetch2"} /\ fpc'[f] = "parse"
            THEN IF fmode[f] = "direct" THEN dn = d + 1 /\ pn = p
                                        ELSE dn = d /\ pn = p + 1
            ELSE dn = d /\ pn = p

C13_CountersFollowSuccess == [][C13_Step]_vars

\* A feed has succeeded once in each mode over two commands.
C13_OnceEachMode ==
  \E f \in Feeds :
    /\ feeds[f].direct_success_count = 1 /\ feeds[f].proxy_success_count = 1
    /\ ncmd = 2

\* C14: analyzeArticles returns exactly one result per article of the batch:
\* as many results as articles, their articleIds the ids of the batch.
C14_OneResultPerArticle ==
  aPc = "returned" =>
    /\ Len(analysisResults) = Cardinality(BatchIds)
    /\ {analysisResults[i].articleId : i \in 1..Len(analysisResults)} = BatchIds

\* C15: when the filter call fails or its response holds no JSON that parses,
\* analyzeArticles has thrown, no summarize or fallback call was made, no
\* result exists and no article of the batch has its analysis changed.
C15_FilterFailureFailsBatch ==
  modelCalls.filter \in {"failed", "noJson"} =>
    /\ aPc = "thrown"
    /\ modelCalls.summarize = 0 /\ modelCalls.fallback = 0 /\ modelCalls.merge = 0
    /\ analysisResults = <<>>
    /\ articles = AnalyzeBatch
    /\ resources = {} /\ articleResources = {}

\* The call has thrown on a response that was received (its usage counted).
C15_ThrownOnNoJson ==
  aPc = "thrown" /\ modelCalls.filter = "noJson" /\ tokenUsage > 0 /\ withSummary

\* C16: an article whose summarize step did not give a summary goes through
\* the fallback call: a step from the summarize call either pushes a result
\* (the next of the list) with the full summary, or awaits a merge, or makes
\* the fallback call; the step from the fallback call pushes the result with
\* the simple summary or none; either way the article's analysis is stored, the loop goes on, and
\* the call does not throw.
C16_Step ==
  /\ aPc \in {"summarize", "fallback", "merge"} => aPc' # "thrown"
  /\ (aPc = "summarize" /\ aPc' # aPc) =>
       \/ aPc' \in {"fallback", "merge"}
       \/ /\ Len(analysisResults') > Len(analysisResults)
          /\ analysisResults'[Len(analysisResults) + 1].summary = "full"
  /\ (aPc = "fallback" /\ aPc' # aPc) =>
       /\ Len(analysisResults') > Len(analysisResults)
       /\ analysisResults'[Len(analysisResults) + 1].summary \in {"simple", "none"}
       /\ analysisResults'[Len(analysisResults) + 1].articleId = Head(filterResults).articleId
       /\ RowOf(articles', Head(filterResults).articleId).analysis # "none"
       /\ aPc' \in {"summarize", "returned"}

C16_SummarizeFailureFallsBack == [][C16_Step]_vars

\* The resources of relevance main among the entries handled so far, saved in
\* the order of their extraction.
RECURSIVE C17_SaveMainOnly(_, _)
C17_SaveMainOnly(db, entries) ==
  IF entries = <<>> THEN db
  ELSE C17_SaveMainOnly(
         IF Head(entries).res.relevance = "main"
           THEN saveResource(db, Head(entries).article_id, Head(entries).res)
           ELSE db,
         Tail(entries))

C17_Linked(articleId, res) ==
  \E l \in articleResources : \E r \in resources :
    /\ l.article_id = articleId
    /\ l.resource_id = r.id
    /\ r.name = normalizeResourceName(res.name)
    /\ r.type = res.type

\* C17: an extracted resource gets an article-resource link if and only if its
\* relevance is main: every link has relevance main and comes from a main
\* entry of that article, every main entry handled has its link, and the
\* resources and links tables are what saving the main entries alone gives, so
\* that a mentioned or compared entry adds no link, no Resource row and no
\* mention_count increment.
C17_OnlyMainLinked ==
  /\ \A l \in articleResources :
       /\ l.relevance = "main"
       /\ \E i \in 1..Len(extracted) :
            /\ extracted[i].article_id = l.article_id
            /\ extracted[i].res.relevance = "main"
            /\ \E r \in resources :
                 /\ r.id = l.resource_id
                 /\ r.name = normalizeResourceName(extracted[i].res.name)
                 /\ r.type = extracted[i].res.type
  /\ \A i \in 1..Len(extracted) :
       extracted[i].res.relevance = "main"
         => C17_Linked(extracted[i].article_id, extracted[i].res)
  /\ LET db == C17_SaveMainOnly([resources |-> {}, links |-> {}, extracted |-> <<>>],
                                extracted)
     IN /\ resources = db.resources
        /\ articleResources = db.links

\* Resources of all three relevances have been handled in one call: the main
\* one is linked, the mentioned and the compared one are not, and the compared
\* one has no row.
C17_ThreeRelevances ==
  /\ aPc = "returned"
  /\ \E i, j, k \in 1..Len(extracted) :
       /\ extracted[i].res.relevance = "main"
       /\ extracted[j].res.relevance = "mentioned"
       /\ extracted[k].res.relevance = "compared"
       /\ extracted[i].article_id = extracted[k].article_id
       /\ C17_Linked(extracted[i].article_id, extracted[i].res)
       /\ ~C17_Linked(extracted[j].article_id, extracted[j].res)
       /\ ~C17_Linked(extracted[k].article_id, extracted[k].res)
       /\ Cardinality(articleResources) = 1
       /\ getResourceByNameAndType(resources, normalizeResourceName(extracted[k].res.name),
                                   extracted[k].res.type) = {}

C18_Sightings(r) ==
  Cardinality({i \in 1..Len(extracted) :
                 /\ extracted[i].res.relevance = "main"
                 /\ normalizeResourceName(extracted[i].res.name) = r.name
                 /\ extracted[i].res.type = r.type})

\* C18: the saved extractions of one (normalized name, type) share a single
\* Resource row, and its mention_count is 1 for the first sighting plus one for
\* each sighting after it.
C18_OneRowCountedPerSighting ==
  /\ \A r1, r2 \in resources : r1.name = r2.name /\ r1.type = r2.type => r1 = r2
  /\ \A r \in resources : r.mention_count = C18_Sightings(r)

\* C19: within one analyzeArticles call the shared token counter equals the
\* sum of the usage reported by the model calls completed so far: filter,
\* summarize, fallback summary and description merge.
C19_CounterIsSumOfUsage == tokenUsage = modelCalls.usage

C20_Selected(f) == pc[f] \in {"scrape", "done"}
C20_Chosen(f, id) == \E i \in 1..Len(toScrape[f]) : toScrape[f][i] = id

\* C20 as stated: a selected article is chosen for scraping exactly when its
\* snapshot is absent or no longer than the minimum usable length.
C20_ChosenBySnapshotAlone ==
  \A f \in Feeds : C20_Selected(f) =>
    \A i \in 1..Len(batch[f]) :
      C20_Chosen(f, batch[f][i])
        <=> RowOf(articles, batch[f][i]).text_snapshot <= MIN_SNAPSHOT

\* C20: a selected article is chosen for scraping exactly when it has a link
\* and its snapshot is absent or at most 200 characters long: with a link, a
\* snapshot of length 150 is chosen and one of length 250 is not.
C20_ChosenByLinkAndSnapshot ==
  \A f \in Feeds : C20_Selected(f) =>
    /\ \A i \in 1..Len(toScrape[f]) : \E j \in 1..Len(batch[f]) : toScrape[f][i] = batch[f][j]
    /\ \A i \in 1..Len(batch[f]) :
         LET a == RowOf(articles, batch[f][i])
         IN /\ C20_Chosen(f, a.id) <=> (a.link /\ a.text_snapshot <= MIN_SNAPSHOT)
            /\ a.link /\ a.text_snapshot = 150 => C20_Chosen(f, a.id)
            /\ a.text_snapshot = 250 => ~C20_Chosen(f, a.id)

\* The selection over a snapshot of length 150 and one of length 250, both
\* with a link: the first is chosen, the second is not.
C20_ShortChosenLongNot ==
  /\ C20_Selected(1)
  /\ \E a, b \in articles :
       /\ a.link /\ a.text_snapshot = 150
       /\ b.link /\ b.text_snapshot = 250
       /\ C20_Chosen(1, a.id)
       /\ ~C20_Chosen(1, b.id)
       /\ \E i, j \in 1..Len(batch[1]) : batch[1][i] = a.id /\ batch[1][j] = b.id

C21_Started(f) == spc[f] = "queued" /\ spc'[f] \in {"launching", "scraping"}

C21_Step ==
  /\ Cardinality(ScrapeRunning') <= 2
  /\ \A f \in DOMAIN spc :
       C21_Started(f) =>
         /\ intervalCount = 0
         /\ intervalCount' = 1
         /\ \A g \in DOMAIN spc \ {f} : ~C21_Started(g)
  /\ intervalCount' < intervalCount => intervalCount' = 0 /\ spc' = spc

C22_Retried(f) == spc[f] = "scraping" /\ spc'[f] \in {"proxyLaunching", "proxyScraping"}
C22_InRetry(f) == spc[f] \in {"proxyLaunching", "proxyScraping"}
C22_Returned(f) == spc'[f] \in {"none", "queued"}

\* What the caller sees of a call that returned null: no snapshot stored, the
\* call counted as completed, not as an error.
C22_ReturnedNull(f) ==
  /\ C22_Returned(f)
  /\ articles' = articles
  /\ cnt'.scrapedArticles = cnt.scrapedArticles + 1
  /\ cnt'.scrapeErrors = cnt.scrapeErrors

C22_RetryStep(f) ==
  /\ C22_Retried(f) => proxyUrl
  /\ C22_InRetry(f) /\ spc'[f] # spc[f] =>
       \/ spc[f] = "proxyLaunching" /\ spc'[f] = "proxyScraping"
       \/ C22_Returned(f)
  /\ spc[f] = "scraping" /\ ~proxyUrl /\ spc'[f] # spc[f] => C22_Returned(f)
  /\ spc[f] = "scraping" /\ C22_Returned(f) /\ scraped'[f] # scraped[f] =>
       \/ C22_ReturnedNull(f)
       \/ \E a \in articles' \ articles : a.id \in scraped'[f] \ scraped[f]

\* The proxy browser is launched by the first retry and by no later one.
C22_LaunchStep(f) ==
  /\ C22_Retried(f) => (spc'[f] = "proxyLaunching" <=> proxyBrowser = 0)
  /\ C22_Retried(f) /\ spc'[f] = "proxyLaunching" =>
       \A g \in DOMAIN spc \ {f} : spc[g] # "proxyLaunching"
  /\ proxyBrowser' # proxyBrowser /\ proxyBrowser' = 1 => proxyBrowser = 0

C22_Step == \A f \in DOMAIN spc : C22_RetryStep(f) /\ C22_LaunchStep(f)

\* C22: a first scrape that fails is retried only with a proxy configured, once
\* and through the proxy browser, which the first retry launches and every
\* later retry reuses; without a retry the call returns null.
C22_RetryOnceThroughProxy == [][C22_Step]_vars

\* C23: when the run is over every article selected for scraping is counted
\* once, as completed or as an error, and the number of successful scrapes the
\* completion message reports lies between 0 and the total and is the number
\* of scrape calls that did not fail.
C23_CoherentScrapeSummary ==
  mainPc = "done" =>
    /\ cnt.scrapedArticles + cnt.scrapeErrors = cnt.scrapeTotal
    /\ scrapeSuccess(cnt) \in 0..cnt.scrapeTotal
    /\ scrapeSuccess(cnt) = cnt.scrapeTotal - cnt.scrapeErrors

C24_Unanalyzed(ids) ==
  \A i \in 1..Len(ids) : RowOf(articles, ids[i]).analysis = "none"

C24_Step ==
  \A f \in Feeds :
    /\ batch'[f] # batch[f] => C24_Unanalyzed(batch'[f])
    /\ llm[f] = "queued" /\ llm'[f] = "filter" => C24_Unanalyzed(batch[f])

\* C24: the batch a run without --force selects for a feed, and the batch its
\* LLM task submits, hold only articles whose analysis has not been stored, in
\* a first run and in every run after it.
C24_AnalyzedNeverSubmitted == [][C24_Step]_vars

\* A later run submits the one article of a feed that the run before left
\* unanalyzed, and not the one it analyzed.
C24_OnlyTheRestSubmitted ==
  /\ ncmd = 1
  /\ \E f \in Feeds :
       /\ llm[f] = "filter"
       /\ Len(batch[f]) = 1
       /\ \E r \in articles : r.feed_id = f /\ r.analysis # "none"

C25_Row(rows) ==
  CHOOSE r \in rows : /\ r.name = normalizeResourceName(Head(pending).name)
                      /\ r.type = Head(pending).type

\* The merge call of the last resource of a response is over.
C25_Step ==
  aPc = "merge" /\ aPc' # "merge" /\ Len(pending) = 1 =>
    IF modelCalls'.usage # modelCalls.usage
      THEN C25_Row(resources').description = "merged"
      ELSE C25_Row(resources').description = C25_Row(resources).description

\* C25: after the re-extraction of a resource whose stored and new
\* descriptions both have content and differ, the stored description is the
\* merged one the model returned, or the one stored before when the merge
\* call failed.
C25_MergedDescriptionStored == [][C25_Step]_vars

C26_Step ==
  /\ cnt'.totalTokens >= cnt.totalTokens
  /\ mainPc' = "done" => cnt'.totalTokens = modelCalls'.usage

\* C26: the run's token counter never decreases during the run, and when the
\* run is over it is the sum of the usage of all its LLM batches.
C26_RunningTokenTotal == [][C26_Step]_vars

\* C27: once the filter prompt of a batch is built every article of the batch
\* has a plain-text snapshot, and the article text of every filter and
\* summarize prompt is that snapshot.
C27_PromptsFromSnapshot ==
  aPc # "idle" =>
    /\ \A r \in articles : r.text_snapshot # 0
    /\ \A i \in 1..Len(prompts) :
         prompts[i].phase \in {"filter", "summarize"} => prompts[i].text = "text_snapshot"

C28_Enqueued == {f \in Feeds : llm[f] \in {"queued", "filter", "summarize"}}
C28_Updated == {f \in Feeds : pc[f] \in {"scrape", "done"}}

\* C28: at every moment of a run 0 <= rssCompleted <= rssTotal,
\* 0 <= llmInteresting <= llmAnalyzed <= llmTotalArticles, and llmPendingFeeds
\* is the number of LLM tasks enqueued and not finished; when the run is over
\* llmPendingFeeds is 0 and, unless the update is skipped, every feed has been
\* counted once in rssCompleted, which is rssTotal.
C28_CountersConsistent ==
  /\ 0 <= cnt.rssCompleted /\ cnt.rssCompleted <= cnt.rssTotal
  /\ 0 <= cnt.llmInteresting /\ cnt.llmInteresting <= cnt.llmAnalyzed
  /\ cnt.llmAnalyzed <= cnt.llmTotalArticles
  /\ cnt.llmPendingFeeds = Cardinality(C28_Enqueued)
  /\ ~opts.skipUpdate => cnt.rssCompleted = Cardinality(C28_Updated)
  /\ mainPc = "done" =>
       /\ cnt.llmPendingFeeds = 0
       /\ ~opts.skipUpdate => cnt.rssCompleted = cnt.rssTotal

\* C29: proxy_success_count of a feed grows only in a step in which a
\* request that was sent through the configured proxy endpoint succeeded;
\* with no proxy endpoint configured no step of any fetch changes it.
C29_Step ==
  \A f \in Feeds :
    feeds'[f].proxy_success_count # feeds[f].proxy_success_count =>
      /\ proxyUrl
      /\ fpc[f] \in {"fetch1", "fetch2"} /\ fpc'[f] = "parse"
      /\ transportOf(fmode[f]) = "proxy"

C29_ProxySuccessThroughProxy == [][C29_Step]_vars

\* C30: under any interleaving of fetchArticleContent calls, between two
\* close() calls at most one main browser and at most one proxy browser is
\* launched: a launch of either kind succeeds only while the service holds no
\* browser of that kind, so every open instance is one the service holds.
C30_Step ==
  /\ \A f \in DOMAIN spc :
       /\ (spc[f] = "launching" /\ spc'[f] = "scraping") => browser = 0
       /\ (spc[f] = "proxyLaunching" /\ spc'[f] = "proxyScraping") => proxyBrowser = 0
  /\ mainPc' # "done" => openInst' <= browser' + proxyBrowser'

C30_OneBrowserOfEachKind == [][C30_Step]_vars

====
